---- MODULE Spec2Model ----
(***************************************************************************)
(* The SSE dispatcher (class SSEManager) of features/sse: the registry of  *)
(* streaming connections, targeted and broadcast sends, the heartbeat /    *)
(* stale-sweep timer and shutdown.  JavaScript runs every method to        *)
(* completion on one thread, so each public method, the timer callback and *)
(* the stream's cancel hook is one atomic action.                          *)
(***************************************************************************)
EXTENDS Integers, Sequences, FiniteSets, TLC

\* ------------------------------------------------------------------ bounds
\* The clock runs from 0 to MaxTime (one unit = one pingInterval).
MaxTime == 3
\* Connections ever created by one dispatcher.
MaxConns == 2
\* Dispatchers the facade constructs.
MaxManagers == 3
\* Calls of the hook's addEventListener.
MaxListeners == 3
\* Longest string payload handed to the encoder, in characters.
MaxDataLen == 3
\* Longest id / event name handed to the encoder, in characters.
MaxTagLen == 2
\* Cap on totalEventsSent.
MaxEvents == 4

\* ------------------------------------------------------------- value sets
\* JavaScript's undefined, for the optional string fields.
Undefined == "undefined"
\* lastEventTime before the first successful send; nextFire of no timer.
NoTime == -1
\* An id that generateClientId never produces ("non-existent" in the tests).
NoSuchClient == <<-1, 0>>

\* Configurations the constructor is given.  One clock unit is one
\* pingInterval; clientTimeout is twice the interval, as in the defaults
\* (30000 / 60000) and in the tests (100 / 200).
Configs ==
    { [pingInterval |-> 1, clientTimeout |-> 2, maxClients |-> 2] }

\* Options handed to createConnection: userId, sessionId, metadata.  Metadata
\* is a set of <<key, value>> pairs; no metadata is the empty set (a lookup
\* of any key gives undefined in both cases).
ConnectOptions ==
    { [userId |-> "user1", sessionId |-> "session1",
       metadata |-> {<<"role", "admin">>, <<"team", "x">>}],
      [userId |-> "user2", sessionId |-> Undefined,
       metadata |-> {<<"role", "user">>}],
      [userId |-> Undefined, sessionId |-> Undefined, metadata |-> {}] }

\* Events handed to the send operations.  data is "object" (JSON.stringify
\* succeeds) or "circular" (JSON.stringify throws).
Events ==
    { [event |-> "test", data |-> "object"],
      [event |-> "test", data |-> "circular"] }

\* userId arguments of sendToUser / disconnectUser: any string.
UserIdArgs == {"user1", "user2", ""}

VARIABLES
    config,           \* Required<SSEManagerConfig>, set by the constructor
    clients,          \* Map<string, SSEClient>: id -> client record
    streams,          \* every ReadableStream created, in creation order
    pingInterval,     \* the timer handle: [active, nextFire]
    totalEventsSent,
    lastEventTime,
    now,              \* Date.now()
    last,             \* outcome of the last operation (observation only)
    facade,           \* notifications.ts: the module variable sseManager
    subscriber,       \* one useSSE hook instance in a browser
    legacy            \* lib/sseManager.ts: the exported sseManager object

vars == <<config, clients, streams, pingInterval, totalEventsSent,
          lastEventTime, now, last, facade, subscriber, legacy>>

\* notifications.ts as loaded: `let sseManager = null`, no dispatcher made.
\* managers holds every dispatcher the facade has constructed; sseManager is
\* the index of the current one, 0 for null.
NoFacade == [sseManager |-> 0, managers |-> <<>>]
\* No hook is mounted.
NoSubscriber == [mounted |-> FALSE]
\* lib/sseManager.ts as loaded: `new SSEManager()` with an empty clients Map.
\* A client of that Map is the payloads written to its res, in order.
NoLegacy == [clients |-> [k \in {} |-> <<>>]]

\* The dispatcher's mutable fields and the streams it created as one value,
\* threaded through the methods.
Manager ==
    [clients |-> clients, streams |-> streams,
     totalEventsSent |-> totalEventsSent, lastEventTime |-> lastEventTime]

\* Map.delete / Map.set on the registry.
MapDelete(map, key) == [k \in (DOMAIN map) \ {key} |-> map[k]]
MapSet(map, key, val) ==
    [k \in (DOMAIN map) \cup {key} |-> IF k = key THEN val ELSE map[k]]

\* Ids of every connection created so far, registered or not.
AllocatedIds == { streams[c].clientId : c \in 1..Len(streams) }
\* The connections (by stream) the registry currently holds.
Registered(m) == { m.clients[k].controller : k \in DOMAIN m.clients }

\* client.metadata?.[key]
MetaGet(metadata, key) ==
    IF \E p \in metadata : p[1] = key
    THEN (CHOOSE p \in metadata : p[1] = key)[2]
    ELSE Undefined

\* ---------------------------------------------------------------- methods
\* controller.close(): closes an open stream, throws on one that is closed.
ControllerClose(state) ==
    IF state = "open"
    THEN [state |-> "closedByDispatcher", threw |-> FALSE]
    ELSE [state |-> state, threw |-> TRUE]

\* controller.enqueue(): throws unless the stream is open.
EnqueueThrows(state) == state # "open"

\* controller.enqueue() on an open stream: the chunk joins the stream's
\* queue.  Of the queue the model keeps the first chunk only, as the event it
\* encodes.
Enqueue(m, c, event) ==
    [m EXCEPT !.streams[c].first = IF @ = <<>> THEN <<event>> ELSE @]

\* formatSSEMessage throws exactly when JSON.stringify does.
FormatThrows(event) == event.data = "circular"

\* The SSEClient the stream's start callback builds; controller is the index
\* of its stream.
NewClient(clientId, options, c, t) ==
    [id |-> clientId, userId |-> options.userId, sessionId |-> options.sessionId,
     controller |-> c, lastPing |-> t, connectedAt |-> t,
     metadata |-> options.metadata]

\* The ReadableStream of a connection: the id its cancel hook captured and
\* the state of its controller.  cancelled, sendFailed and teardowns are
\* observations: whether the cancel hook has run, whether a send to this
\* connection went through sendToClient's catch, and how often
\* disconnectClient removed this connection.
NewStream(clientId) ==
    [clientId |-> clientId, state |-> "open", cancelled |-> FALSE,
     sendFailed |-> FALSE, teardowns |-> 0, first |-> <<>>]

\* disconnectClient without the lookup guard: it reports true for any id.
disconnectClient_AlwaysTrue(m, clientId) ==
    IF clientId \notin DOMAIN m.clients
    THEN [m |-> m, ret |-> TRUE, threw |-> FALSE]
    ELSE LET c == m.clients[clientId].controller
             closed == ControllerClose(m.streams[c].state)
         IN  [m |-> [m EXCEPT !.streams[c].state = closed.state,
                              !.streams[c].teardowns = @ + 1,
                              !.clients = MapDelete(@, clientId)],
              ret |-> TRUE, threw |-> FALSE]

\* disconnectClient(clientId): false for an id that is not registered;
\* otherwise close the controller (an exception is swallowed), delete the
\* entry and return true.
disconnectClient(m, clientId) ==
    IF clientId \notin DOMAIN m.clients
    THEN [m |-> m, ret |-> FALSE, threw |-> FALSE]
    ELSE LET c == m.clients[clientId].controller
             closed == ControllerClose(m.streams[c].state)
         IN  [m |-> [m EXCEPT !.streams[c].state = closed.state,
                              !.streams[c].teardowns = @ + 1,
                              !.clients = MapDelete(@, clientId)],
              ret |-> TRUE, threw |-> FALSE]

\* sendToClient without the registry lookup: for an id that is not
\* registered it still tries the sink of a connection created under that id.
sendToClient_SkipsLookup(m, t, clientId, event) ==
    LET created == { c \in 1..Len(m.streams) : m.streams[c].clientId = clientId }
        c == IF clientId \in DOMAIN m.clients
             THEN m.clients[clientId].controller
             ELSE CHOOSE x \in created : \A y \in created : y <= x
    IN  IF clientId \notin DOMAIN m.clients /\ created = {}
        THEN [m |-> m, ret |-> FALSE, delivered |-> {}, failed |-> {},
              threw |-> FALSE]
        ELSE IF ~FormatThrows(event) /\ ~EnqueueThrows(m.streams[c].state)
        THEN [m |-> [Enqueue(m, c, event) EXCEPT
                          !.totalEventsSent = @ + 1, !.lastEventTime = t],
              ret |-> TRUE, delivered |-> {c}, failed |-> {}, threw |-> FALSE]
        ELSE LET d == disconnectClient(
                         [m EXCEPT !.streams[c].sendFailed = TRUE], clientId)
             IN  [m |-> d.m, ret |-> FALSE, delivered |-> {}, failed |-> {c},
                  threw |-> d.threw]

\* sendToClient that refreshes lastPing on every successful write.
sendToClient_StampsLastPing(m, t, clientId, event) ==
    IF clientId \notin DOMAIN m.clients
    THEN [m |-> m, ret |-> FALSE, delivered |-> {}, failed |-> {},
          threw |-> FALSE]
    ELSE LET c == m.clients[clientId].controller IN
         IF ~FormatThrows(event) /\ ~EnqueueThrows(m.streams[c].state)
         THEN [m |-> [Enqueue(m, c, event) EXCEPT
                          !.totalEventsSent = @ + 1, !.lastEventTime = t,
                               !.clients[clientId].lastPing = t],
               ret |-> TRUE, delivered |-> {c}, failed |-> {}, threw |-> FALSE]
         ELSE LET d == disconnectClient(
                          [m EXCEPT !.streams[c].sendFailed = TRUE], clientId)
              IN  [m |-> d.m, ret |-> FALSE, delivered |-> {}, failed |-> {c},
                   threw |-> d.threw]

\* sendToClient that counts the event before the write: a send that fails
\* is counted and stamped too.
sendToClient_CountsAttempts(m, t, clientId, event) ==
    IF clientId \notin DOMAIN m.clients
    THEN [m |-> m, ret |-> FALSE, delivered |-> {}, failed |-> {},
          threw |-> FALSE]
    ELSE LET c == m.clients[clientId].controller
             m1 == [m EXCEPT !.totalEventsSent = @ + 1, !.lastEventTime = t]
         IN
         IF ~FormatThrows(event) /\ ~EnqueueThrows(m.streams[c].state)
         THEN [m |-> Enqueue(m1, c, event),
               ret |-> TRUE, delivered |-> {c}, failed |-> {}, threw |-> FALSE]
         ELSE LET d == disconnectClient(
                          [m1 EXCEPT !.streams[c].sendFailed = TRUE], clientId)
              IN  [m |-> d.m, ret |-> FALSE, delivered |-> {}, failed |-> {c},
                   threw |-> d.threw]

\* sendToClient whose catch only reports the failure: the client stays.
sendToClient_KeepsFailedClient(m, t, clientId, event) ==
    IF clientId \notin DOMAIN m.clients
    THEN [m |-> m, ret |-> FALSE, delivered |-> {}, failed |-> {},
          threw |-> FALSE]
    ELSE LET c == m.clients[clientId].controller IN
         IF ~FormatThrows(event) /\ ~EnqueueThrows(m.streams[c].state)
         THEN [m |-> [Enqueue(m, c, event) EXCEPT
                          !.totalEventsSent = @ + 1, !.lastEventTime = t],
               ret |-> TRUE, delivered |-> {c}, failed |-> {}, threw |-> FALSE]
         ELSE [m |-> [m EXCEPT !.streams[c].sendFailed = TRUE],
               ret |-> FALSE, delivered |-> {}, failed |-> {c}, threw |-> FALSE]

\* sendToClient(clientId, event): false for an id that is not registered;
\* format and enqueue inside try; on success count the event and stamp
\* lastEventTime; on any exception disconnect the client and return false.
sendToClient(m, t, clientId, event) ==
    IF clientId \notin DOMAIN m.clients
    THEN [m |-> m, ret |-> FALSE, delivered |-> {}, failed |-> {},
          threw |-> FALSE]
    ELSE LET c == m.clients[clientId].controller IN
         IF ~FormatThrows(event) /\ ~EnqueueThrows(m.streams[c].state)
         THEN [m |-> [Enqueue(m, c, event) EXCEPT
                          !.totalEventsSent = @ + 1, !.lastEventTime = t],
               ret |-> TRUE, delivered |-> {c}, failed |-> {}, threw |-> FALSE]
         ELSE LET d == disconnectClient(
                          [m EXCEPT !.streams[c].sendFailed = TRUE], clientId)
              IN  [m |-> d.m, ret |-> FALSE, delivered |-> {}, failed |-> {c},
                   threw |-> d.threw]

\* JavaScript truthiness of an optional string: undefined and "" are falsy.
Truthy(s) == s # Undefined /\ s # ""

\* A ClientFilter: userId and sessionId are strings or undefined; clientIds
\* and metadata are present or not (an empty array / object is truthy).
Filter(userId, sessionId, hasClientIds, clientIds, hasMetadata, metadata) ==
    [userId |-> userId, sessionId |-> sessionId,
     hasClientIds |-> hasClientIds, clientIds |-> clientIds,
     hasMetadata |-> hasMetadata, metadata |-> metadata]

\* getClientsByFilter(filter): the registered clients no criterion rejects
\* (returned as their ids, which is all the callers use).
getClientsByFilter(m, filter) ==
    { id \in DOMAIN m.clients :
        LET client == m.clients[id] IN
        /\ ~(filter.hasClientIds /\ client.id \notin filter.clientIds)
        /\ ~(Truthy(filter.userId) /\ client.userId # filter.userId)
        /\ ~(Truthy(filter.sessionId) /\ client.sessionId # filter.sessionId)
        /\ ~(filter.hasMetadata
             /\ ~(\A p \in filter.metadata :
                     MetaGet(client.metadata, p[1]) = p[2])) }

\* The loop of sendToClients over the snapshot of matching clients.
RECURSIVE SendEach(_, _, _, _, _)
SendEach(m, t, ids, event, acc) ==
    IF ids = {} \/ acc.threw
    THEN [m |-> m, ret |-> acc.ret, delivered |-> acc.delivered,
          failed |-> acc.failed, threw |-> acc.threw]
    ELSE LET id == CHOOSE x \in ids : TRUE
             r == sendToClient(m, t, id, event)
         IN  SendEach(r.m, t, ids \ {id}, event,
                      [ret |-> acc.ret + (IF r.ret THEN 1 ELSE 0),
                       delivered |-> acc.delivered \cup r.delivered,
                       failed |-> acc.failed \cup r.failed,
                       threw |-> r.threw])

\* sendToClients that reports the number of matching clients, not of
\* successful sends.
sendToClients_CountsMatches(m, t, filter, event) ==
    LET matching == getClientsByFilter(m, filter)
        r == SendEach(m, t, matching, event,
                      [ret |-> 0, delivered |-> {}, failed |-> {},
                       threw |-> FALSE])
    IN  [r EXCEPT !.ret = Cardinality(matching)]

\* sendToClients(filter, event): the number of successful sends.
sendToClients(m, t, filter, event) ==
    SendEach(m, t, getClientsByFilter(m, filter), event,
             [ret |-> 0, delivered |-> {}, failed |-> {}, threw |-> FALSE])

EmptyFilter == Filter(Undefined, Undefined, FALSE, {}, FALSE, {})
UserFilter(userId) == Filter(userId, Undefined, FALSE, {}, FALSE, {})

\* broadcast(event) = sendToClients({}, event)
broadcast(m, t, event) == sendToClients(m, t, EmptyFilter, event)

\* sendToUser(userId, event) = sendToClients({ userId }, event)
sendToUser(m, t, userId, event) ==
    sendToClients(m, t, UserFilter(userId), event)

\* The loop of disconnectUser, cleanupStaleClients and destroy.
RECURSIVE DisconnectEach(_, _, _)
DisconnectEach(m, ids, acc) ==
    IF ids = {} \/ acc.threw
    THEN [m |-> m, ret |-> acc.ret, threw |-> acc.threw]
    ELSE LET id == CHOOSE x \in ids : TRUE
             d == disconnectClient(m, id)
         IN  DisconnectEach(d.m, ids \ {id},
                            [ret |-> acc.ret + (IF d.ret THEN 1 ELSE 0),
                             threw |-> d.threw])

\* disconnectUser(userId): the number of clients disconnected.
disconnectUser(m, userId) ==
    DisconnectEach(m, getClientsByFilter(m, UserFilter(userId)),
                   [ret |-> 0, threw |-> FALSE])

\* generateClientId(): `client_${Date.now()}_${random suffix}`.  The suffix is
\* whatever Math.random() yields; the caller draws it.
generateClientId(t, suffix) == <<t, suffix>>

\* The outcomes of Math.random() that differ for the dispatcher: a suffix
\* already drawn in this clock reading, or a new one.  Suffixes are only ever
\* compared for equality, so new ones are numbered in the order drawn.
Suffixes(allocated, t) ==
    LET used == { id[2] : id \in { x \in allocated : x[1] = t } }
    IN  used \cup { Cardinality(used) }

\* createConnection that registers the client without sending it the
\* "connected" event.
createConnection_NoConnectedEvent(m, t, cfg, options, suffix) ==
    IF Cardinality(DOMAIN m.clients) >= cfg.maxClients
    THEN [m |-> m, threw |-> TRUE, delivered |-> {}, failed |-> {}]
    ELSE LET clientId == generateClientId(t, suffix)
             c == Len(m.streams) + 1
         IN  [m |-> [m EXCEPT
                       !.streams = Append(@, NewStream(clientId)),
                       !.clients = MapSet(@, clientId,
                                          NewClient(clientId, options, c, t))],
              threw |-> FALSE, delivered |-> {}, failed |-> {}]

\* createConnection whose capacity check is off by one (> for >=).
createConnection_OffByOne(m, t, cfg, options, suffix) ==
    IF Cardinality(DOMAIN m.clients) > cfg.maxClients
    THEN [m |-> m, threw |-> TRUE, delivered |-> {}, failed |-> {}]
    ELSE LET clientId == generateClientId(t, suffix)
             c == Len(m.streams) + 1
             m1 == [m EXCEPT
                      !.streams = Append(@, NewStream(clientId)),
                      !.clients = MapSet(@, clientId,
                                         NewClient(clientId, options, c, t))]
             sent == sendToClient(m1, t, clientId,
                                  [event |-> "connected", data |-> "object",
                                   clientId |-> clientId, connectedAt |-> t])
         IN  [m |-> sent.m, threw |-> sent.threw, delivered |-> sent.delivered,
              failed |-> sent.failed]

\* createConnection(options): throws at capacity; otherwise the stream's
\* start callback runs synchronously: it builds the client, registers it
\* with clients.set and sends the "connected" event.
createConnection(m, t, cfg, options, suffix) ==
    IF Cardinality(DOMAIN m.clients) >= cfg.maxClients
    THEN [m |-> m, threw |-> TRUE, delivered |-> {}, failed |-> {}]
    ELSE LET clientId == generateClientId(t, suffix)
             c == Len(m.streams) + 1
             m1 == [m EXCEPT
                      !.streams = Append(@, NewStream(clientId)),
                      !.clients = MapSet(@, clientId,
                                         NewClient(clientId, options, c, t))]
             sent == sendToClient(m1, t, clientId,
                                  [event |-> "connected", data |-> "object",
                                   clientId |-> clientId, connectedAt |-> t])
         IN  [m |-> sent.m, threw |-> sent.threw, delivered |-> sent.delivered,
              failed |-> sent.failed]

\* The loop of sendHeartbeat over the registry: a client whose ping is sent
\* gets lastPing = now; one whose ping fails has been disconnected.
RECURSIVE HeartbeatEach(_, _, _, _)
HeartbeatEach(m, t, ids, acc) ==
    IF ids = {} \/ acc.threw
    THEN [m |-> m, delivered |-> acc.delivered, failed |-> acc.failed,
          threw |-> acc.threw]
    ELSE LET id == CHOOSE x \in ids : TRUE
             r == sendToClient(m, t, id, [event |-> "ping", data |-> "object"])
             m2 == IF r.ret THEN [r.m EXCEPT !.clients[id].lastPing = t] ELSE r.m
         IN  HeartbeatEach(m2, t, ids \ {id},
                           [delivered |-> acc.delivered \cup r.delivered,
                            failed |-> acc.failed \cup r.failed,
                            threw |-> r.threw])

\* sendHeartbeat that sends the pings and never updates lastPing.
sendHeartbeat_NoStamp(m, t) ==
    SendEach(m, t, DOMAIN m.clients, [event |-> "ping", data |-> "object"],
             [ret |-> 0, delivered |-> {}, failed |-> {}, threw |-> FALSE])

sendHeartbeat(m, t) ==
    HeartbeatEach(m, t, DOMAIN m.clients,
                  [delivered |-> {}, failed |-> {}, threw |-> FALSE])

\* A sweep that measures staleness from connectedAt: the refresh of lastPing
\* by the heartbeat is ignored.
StaleClients_ByConnectionAge(m, t, cfg) ==
    { id \in DOMAIN m.clients : t - m.clients[id].connectedAt > cfg.clientTimeout }

\* cleanupStaleClients(): disconnect every client whose lastPing is more
\* than clientTimeout old.
StaleClients(m, t, cfg) ==
    { id \in DOMAIN m.clients : t - m.clients[id].lastPing > cfg.clientTimeout }

cleanupStaleClients(m, t, cfg) ==
    DisconnectEach(m, StaleClients(m, t, cfg), [ret |-> 0, threw |-> FALSE])

\* The setInterval callback: sendHeartbeat(), then cleanupStaleClients().
TimerCallback(m, t, cfg) ==
    LET h == sendHeartbeat(m, t)
        s == IF h.threw THEN [m |-> h.m, ret |-> 0, threw |-> TRUE]
             ELSE cleanupStaleClients(h.m, t, cfg)
    IN  [m |-> s.m, delivered |-> h.delivered, failed |-> h.failed,
         swept |-> s.ret, threw |-> s.threw]

\* destroy(): the loop that disconnects every registered client.
destroy(m) == DisconnectEach(m, DOMAIN m.clients, [ret |-> 0, threw |-> FALSE])

\* getStats(): computed from the registry at the time of the call.
getStats(m) ==
    LET users == { m.clients[k].userId : k \in DOMAIN m.clients }
    IN  [totalClients |-> Cardinality(DOMAIN m.clients),
         clientsByUser |->
            [u \in { x \in users : Truthy(x) } |->
                Cardinality({ k \in DOMAIN m.clients : m.clients[k].userId = u })],
         totalEventsSent |-> m.totalEventsSent,
         lastEventTime |-> m.lastEventTime]

\* getActiveConnections(): one entry per registered client, computed from
\* the registry at the time of the call (the entries are given as a set; the
\* order of the returned array is not represented).
getActiveConnections(m, t) ==
    { [id |-> m.clients[k].id, userId |-> m.clients[k].userId,
       sessionId |-> m.clients[k].sessionId,
       connectedAt |-> m.clients[k].connectedAt,
       connectionDuration |-> t - m.clients[k].connectedAt,
       lastPing |-> m.clients[k].lastPing,
       timeSinceLastPing |-> t - m.clients[k].lastPing,
       metadata |-> m.clients[k].metadata] : k \in DOMAIN m.clients }

\* ---------------------------------------------------------------- encoder
\* Text is a sequence of characters.  The characters that matter to the
\* encoder are the line feed and any other character.
LineFeed == "\n"
Chars == {"a", LineFeed}
Strings(n) == UNION { [1..k -> Chars] : k \in 0..n }

\* An optional field of SSEEvent: undefined, or a value.
None == [defined |-> FALSE]
Some(v) == [defined |-> TRUE, value |-> v]

\* event.data: a string, an object (given by the text JSON.stringify returns
\* for it: compact, a line feed inside a string escaped as backslash n), an
\* object with a circular reference (JSON.stringify throws) or undefined
\* (JSON.stringify returns undefined and data.split throws).
StringData(text) == [type |-> "string", value |-> text]
ObjectData == [type |-> "object",
               json |-> <<"{", "\"", "a", "\"", ":", "\"", "\\", "n", "\"", "}">>]
CircularData == [type |-> "circular"]
UndefinedData == [type |-> "undefined"]

\* The SSEEvents handed to formatSSEMessage.
EncoderEvents ==
    [id : {None} \cup { Some(x) : x \in Strings(MaxTagLen) },
     event : {None} \cup { Some(x) : x \in Strings(MaxTagLen) },
     retry : {None, Some(0), Some(3000)},
     data : { StringData(x) : x \in Strings(MaxDataLen) }
            \cup {ObjectData, CircularData, UndefinedData}]

\* `if (event.id)`, `if (event.event)`: a defined, non-empty string.
TruthyString(field) == field.defined /\ field.value # <<>>
\* `if (event.retry)`: a defined number other than 0.
TruthyNumber(field) == field.defined /\ field.value # 0

\* `${n}` for a non-negative integer: its decimal digits.
Digit(d) == <<"0", "1", "2", "3", "4", "5", "6", "7", "8", "9">>[d + 1]
RECURSIVE NumberToString(_)
NumberToString(n) ==
    IF n < 10 THEN <<Digit(n)>>
    ELSE NumberToString(n \div 10) \o <<Digit(n % 10)>>

\* data.split("\n")
RECURSIVE Split(_)
Split(text) ==
    IF \E i \in 1..Len(text) : text[i] = LineFeed
    THEN LET i == CHOOSE j \in 1..Len(text) :
                     /\ text[j] = LineFeed
                     /\ \A k \in 1..(j - 1) : text[k] # LineFeed
         IN  <<SubSeq(text, 1, i - 1)>> \o Split(SubSeq(text, i + 1, Len(text)))
    ELSE <<text>>

IdPrefix == <<"i", "d", ":", " ">>
EventPrefix == <<"e", "v", "e", "n", "t", ":", " ">>
RetryPrefix == <<"r", "e", "t", "r", "y", ":", " ">>
DataPrefix == <<"d", "a", "t", "a", ":", " ">>

\* The loop that emits `data: ${line}\n` for each line.
RECURSIVE DataLines(_)
DataLines(lines) ==
    IF lines = <<>> THEN <<>>
    ELSE DataPrefix \o Head(lines) \o <<LineFeed>> \o DataLines(Tail(lines))

\* formatSSEMessage throws when JSON.stringify throws or returns undefined.
EncodeThrows(event) == event.data.type \in {"circular", "undefined"}

\* The text the data lines are cut from: a string verbatim, anything else
\* through JSON.stringify.
DataText(event) ==
    IF event.data.type = "string" THEN event.data.value ELSE event.data.json

\* formatSSEMessage that emits the data as one line, without the split.
formatSSEMessage_NoSplit(event) ==
    (IF TruthyString(event.id)
     THEN IdPrefix \o event.id.value \o <<LineFeed>> ELSE <<>>)
    \o (IF TruthyString(event.event)
        THEN EventPrefix \o event.event.value \o <<LineFeed>> ELSE <<>>)
    \o (IF TruthyNumber(event.retry)
        THEN RetryPrefix \o NumberToString(event.retry.value) \o <<LineFeed>>
        ELSE <<>>)
    \o DataPrefix \o DataText(event) \o <<LineFeed>>
    \o <<LineFeed>>

\* formatSSEMessage(event), for an event it does not throw on.
formatSSEMessage(event) ==
    (IF TruthyString(event.id)
     THEN IdPrefix \o event.id.value \o <<LineFeed>> ELSE <<>>)
    \o (IF TruthyString(event.event)
        THEN EventPrefix \o event.event.value \o <<LineFeed>> ELSE <<>>)
    \o (IF TruthyNumber(event.retry)
        THEN RetryPrefix \o NumberToString(event.retry.value) \o <<LineFeed>>
        ELSE <<>>)
    \o DataLines(Split(DataText(event)))
    \o <<LineFeed>>

\* ---------------------------------------------------------------- actions
\* Filters handed to sendToClients.
Filters ==
    {EmptyFilter}
    \cup { UserFilter(u) : u \in UserIdArgs }
    \cup { Filter(Undefined, s, FALSE, {}, FALSE, {}) : s \in {"session1", ""} }
    \cup { Filter(Undefined, Undefined, TRUE, ids, FALSE, {}) :
              ids \in {{}} \cup { {id} : id \in AllocatedIds } }
    \cup { Filter(u, Undefined, FALSE, {}, TRUE, md) :
              u \in {Undefined, "user2"},
              md \in { {}, {<<"role", "admin">>},
                       {<<"role", "admin">>, <<"team", "y">>} } }

\* What the last operation did: ret for a boolean result, count for a
\* number, threw for an exception reaching the caller, delivered for the
\* connections whose sink it wrote to, failed for those a send to which
\* went through sendToClient's catch.
Outcome(op, ret, count, threw, delivered, failed) ==
    [op |-> op, ret |-> ret, count |-> count, threw |-> threw,
     delivered |-> delivered, failed |-> failed]

Commit(m) ==
    /\ clients' = m.clients
    /\ streams' = m.streams
    /\ totalEventsSent' = m.totalEventsSent
    /\ lastEventTime' = m.lastEventTime

\* The constructor: the configuration is fixed and the timer is started.
Init ==
    /\ config \in Configs
    /\ clients = [k \in {} |-> 0]
    /\ streams = <<>>
    /\ pingInterval = [active |-> TRUE, nextFire |-> config.pingInterval]
    /\ totalEventsSent = 0
    /\ lastEventTime = NoTime
    /\ now = 0
    /\ facade = NoFacade
    /\ legacy = NoLegacy
    /\ subscriber = NoSubscriber
    /\ last = Outcome("constructor", FALSE, 0, FALSE, {}, {})

CreateConnection(options, suffix) ==
    LET r == createConnection(Manager, now, config, options, suffix) IN
    /\ r.threw \/ Len(streams) < MaxConns
    /\ r.m.totalEventsSent <= MaxEvents
    /\ Commit(r.m)
    /\ last' = Outcome("createConnection", FALSE, 0, r.threw, r.delivered, r.failed)
    /\ UNCHANGED <<legacy, facade, subscriber, config, pingInterval, now>>

SendToClient(clientId, event) ==
    LET r == sendToClient(Manager, now, clientId, event) IN
    /\ r.m.totalEventsSent <= MaxEvents
    /\ Commit(r.m)
    /\ last' = Outcome("sendToClient", r.ret, 0, r.threw, r.delivered, r.failed)
    /\ UNCHANGED <<legacy, facade, subscriber, config, pingInterval, now>>

SendToClients(filter, event) ==
    LET r == sendToClients(Manager, now, filter, event) IN
    /\ r.m.totalEventsSent <= MaxEvents
    /\ Commit(r.m)
    /\ last' = Outcome("sendToClients", FALSE, r.ret, r.threw, r.delivered, r.failed)
    /\ UNCHANGED <<legacy, facade, subscriber, config, pingInterval, now>>

Broadcast(event) ==
    LET r == broadcast(Manager, now, event) IN
    /\ r.m.totalEventsSent <= MaxEvents
    /\ Commit(r.m)
    /\ last' = Outcome("broadcast", FALSE, r.ret, r.threw, r.delivered, r.failed)
    /\ UNCHANGED <<legacy, facade, subscriber, config, pingInterval, now>>

SendToUser(userId, event) ==
    LET r == sendToUser(Manager, now, userId, event) IN
    /\ r.m.totalEventsSent <= MaxEvents
    /\ Commit(r.m)
    /\ last' = Outcome("sendToUser", FALSE, r.ret, r.threw, r.delivered, r.failed)
    /\ UNCHANGED <<legacy, facade, subscriber, config, pingInterval, now>>

DisconnectClient(clientId) ==
    LET r == disconnectClient(Manager, clientId) IN
    /\ Commit(r.m)
    /\ last' = Outcome("disconnectClient", r.ret, 0, r.threw, {}, {})
    /\ UNCHANGED <<legacy, facade, subscriber, config, pingInterval, now>>

DisconnectUser(userId) ==
    LET r == disconnectUser(Manager, userId) IN
    /\ Commit(r.m)
    /\ last' = Outcome("disconnectUser", FALSE, r.ret, r.threw, {}, {})
    /\ UNCHANGED <<legacy, facade, subscriber, config, pingInterval, now>>

\* The transport aborts connection c: the stream is cancelled and its cancel
\* hook calls disconnectClient with the id createConnection captured.  A
\* stream the dispatcher closed can still be cancelled while its queue holds
\* unread chunks.
Cancel(c) ==
    /\ ~streams[c].cancelled
    /\ LET m0 == [Manager EXCEPT
                    !.streams[c].cancelled = TRUE,
                    !.streams[c].state =
                        IF @ = "open" THEN "closedByTransport" ELSE @]
           r == disconnectClient(m0, streams[c].clientId)
       IN  /\ Commit(r.m)
           /\ last' = Outcome("cancel", r.ret, 0, r.threw, {}, {})
    /\ UNCHANGED <<legacy, facade, subscriber, config, pingInterval, now>>

\* Code outside the dispatcher closes the controller of a registered client
\* (as the send-error test does), so the next write to it is rejected.
CloseController(c) ==
    /\ c \in Registered(Manager)
    /\ streams[c].state = "open"
    /\ streams' = [streams EXCEPT ![c].state = "closedExternally"]
    /\ last' = Outcome("closeController", FALSE, 0, FALSE, {}, {})
    /\ UNCHANGED <<legacy, facade, subscriber, config, clients, pingInterval, totalEventsSent,
                   lastEventTime, now>>

\* The timer fires: one run of the setInterval callback.
Tick ==
    /\ pingInterval.active
    /\ now = pingInterval.nextFire
    /\ LET r == TimerCallback(Manager, now, config) IN
       /\ r.m.totalEventsSent <= MaxEvents
       /\ Commit(r.m)
       /\ last' = Outcome("tick", FALSE, r.swept, r.threw, r.delivered, r.failed)
    /\ pingInterval' = [pingInterval EXCEPT !.nextFire = now + config.pingInterval]
    /\ UNCHANGED <<legacy, facade, subscriber, config, now>>

\* Time passes; a running timer fires when it is due.
Advance ==
    /\ now < MaxTime
    /\ pingInterval.active => now < pingInterval.nextFire
    /\ now' = now + 1
    /\ last' = Outcome("advance", FALSE, 0, FALSE, {}, {})
    /\ UNCHANGED <<legacy, facade, subscriber, config, clients, streams, pingInterval, totalEventsSent,
                   lastEventTime>>

\* destroy(): clear the timer, then disconnect every client.
Destroy ==
    LET r == destroy(Manager) IN
    /\ pingInterval' = [active |-> FALSE, nextFire |-> NoTime]
    /\ Commit(r.m)
    /\ last' = Outcome("destroy", FALSE, r.ret, r.threw, {}, {})
    /\ UNCHANGED <<legacy, facade, subscriber, config, now>>

\* The calls request handlers make and what the transport does to a stream,
\* within one reading of the clock.
Next ==
    \/ \E options \in ConnectOptions, suffix \in Suffixes(AllocatedIds, now) :
          CreateConnection(options, suffix)
    \/ \E clientId \in AllocatedIds \cup {NoSuchClient}, event \in Events :
          SendToClient(clientId, event)
    \/ \E filter \in Filters, event \in Events : SendToClients(filter, event)
    \/ \E event \in Events : Broadcast(event)
    \/ \E userId \in UserIdArgs, event \in Events : SendToUser(userId, event)
    \/ \E clientId \in AllocatedIds \cup {NoSuchClient} : DisconnectClient(clientId)
    \/ \E userId \in UserIdArgs : DisconnectUser(userId)
    \/ \E c \in 1..Len(streams) : Cancel(c)
    \/ \E c \in 1..Len(streams) : CloseController(c)
    \/ Destroy

Spec == Init /\ [][Next]_vars

\* The dispatcher over time: connections come and go while the clock runs
\* and the timer fires.
NextTimer ==
    \/ \E options \in ConnectOptions, suffix \in Suffixes(AllocatedIds, now) :
          CreateConnection(options, suffix)
    \/ \E clientId \in AllocatedIds : DisconnectClient(clientId)
    \/ \E c \in 1..Len(streams) : Cancel(c)
    \/ \E c \in 1..Len(streams) : CloseController(c)
    \/ Tick
    \/ Advance
    \/ Destroy

SpecTimer == Init /\ [][NextTimer]_vars

\* A configuration whose clientTimeout is shorter than its pingInterval (the
\* constructor takes the numbers as given) and whose maxClients is 1, so
\* that the capacity is reached before the bound on connections.
SweepConfigs ==
    { [pingInterval |-> 2, clientTimeout |-> 1, maxClients |-> 1] }

InitSweep ==
    /\ config \in SweepConfigs
    /\ clients = [k \in {} |-> 0]
    /\ streams = <<>>
    /\ pingInterval = [active |-> TRUE, nextFire |-> config.pingInterval]
    /\ totalEventsSent = 0
    /\ lastEventTime = NoTime
    /\ now = 0
    /\ facade = NoFacade
    /\ legacy = NoLegacy
    /\ subscriber = NoSubscriber
    /\ last = Outcome("constructor", FALSE, 0, FALSE, {}, {})

\* The dispatcher over time under such a configuration.
SpecSweep == InitSweep /\ [][NextTimer]_vars

\* createConnection options for the statistics: those above and a connection
\* whose userId is the empty string.
StatsOptions ==
    ConnectOptions
    \cup { [userId |-> "", sessionId |-> Undefined, metadata |-> {}] }

\* getStats(): reads the registry and the counters, changes nothing.
GetStats ==
    /\ last' = [op |-> "getStats", ret |-> FALSE, count |-> 0, threw |-> FALSE,
                delivered |-> {}, failed |-> {}, stats |-> getStats(Manager)]
    /\ UNCHANGED <<legacy, facade, subscriber, config, clients, streams, pingInterval, totalEventsSent,
                   lastEventTime, now>>

\* Connections come and go and the statistics are read.
NextStats ==
    \/ \E options \in StatsOptions, suffix \in Suffixes(AllocatedIds, now) :
          CreateConnection(options, suffix)
    \/ \E clientId \in AllocatedIds : DisconnectClient(clientId)
    \/ \E userId \in UserIdArgs : DisconnectUser(userId)
    \/ GetStats

SpecStats == Init /\ [][NextStats]_vars

\* The filters by session and by client id (broadcast and sendToUser are
\* the empty filter and the filters by user).
LiveFilters ==
    { Filter(Undefined, s, FALSE, {}, FALSE, {}) : s \in {"session1", ""} }
    \cup { Filter(Undefined, Undefined, TRUE, ids, FALSE, {}) :
              ids \in {{}} \cup { {id} : id \in AllocatedIds } }

GetActiveConnections ==
    /\ last' = [op |-> "getActiveConnections", ret |-> FALSE, count |-> 0,
                threw |-> FALSE, delivered |-> {}, failed |-> {},
                connections |-> getActiveConnections(Manager, now)]
    /\ UNCHANGED <<legacy, facade, subscriber, config, clients, streams, pingInterval,
                   totalEventsSent, lastEventTime, now>>

\* Callers send and read while the clock runs and the timer fires.
NextLive ==
    \/ \E options \in ConnectOptions, suffix \in Suffixes(AllocatedIds, now) :
          CreateConnection(options, suffix)
    \/ \E clientId \in AllocatedIds, event \in Events :
          SendToClient(clientId, event)
    \/ \E filter \in LiveFilters, event \in Events :
          SendToClients(filter, event)
    \/ \E event \in Events : Broadcast(event)
    \/ \E userId \in UserIdArgs, event \in Events : SendToUser(userId, event)
    \/ \E c \in 1..Len(streams) : CloseController(c)
    \/ GetStats
    \/ GetActiveConnections
    \/ Tick
    \/ Advance

SpecLive == Init /\ [][NextLive]_vars

\* Connections are torn down (by disconnectClient, by the transport, by a
\* failed send) while callers send and the timer fires.
NextTeardown ==
    \/ \E options \in ConnectOptions, suffix \in Suffixes(AllocatedIds, now) :
          CreateConnection(options, suffix)
    \/ \E clientId \in AllocatedIds : DisconnectClient(clientId)
    \/ \E c \in 1..Len(streams) : Cancel(c)
    \/ \E clientId \in AllocatedIds, event \in Events :
          SendToClient(clientId, event)
    \/ \E filter \in LiveFilters, event \in Events :
          SendToClients(filter, event)
    \/ \E event \in Events : Broadcast(event)
    \/ Tick
    \/ Advance
    \/ Destroy

SpecTeardown == Init /\ [][NextTeardown]_vars

\* A caller about to hand an event to formatSSEMessage.
InitEncoder ==
    /\ config \in Configs
    /\ clients = [k \in {} |-> 0]
    /\ streams = <<>>
    /\ pingInterval = [active |-> TRUE, nextFire |-> config.pingInterval]
    /\ totalEventsSent = 0
    /\ lastEventTime = NoTime
    /\ now = 0
    /\ facade = NoFacade
    /\ legacy = NoLegacy
    /\ subscriber = NoSubscriber
    /\ last \in { [op |-> "call", event |-> event] : event \in EncoderEvents }

\* The call of formatSSEMessage; it reads and changes no field.
FormatSSEMessage ==
    /\ last.op = "call"
    /\ last' = [op |-> "formatSSEMessage", event |-> last.event,
                threw |-> EncodeThrows(last.event),
                message |-> IF EncodeThrows(last.event) THEN <<>>
                            ELSE formatSSEMessage(last.event)]
    /\ UNCHANGED <<legacy, facade, subscriber, config, clients, streams, pingInterval, totalEventsSent,
                   lastEventTime, now>>

NextEncoder == FormatSSEMessage

\* The encoder applied to every event of EncoderEvents.
SpecEncoder == InitEncoder /\ [][NextEncoder]_vars

\* ----------------------------------------------------------------- facade
\* new SSEManager(config): an empty registry and a started timer.
NewSSEManager(cfg, t) ==
    [config |-> cfg,
     m |-> [clients |-> [k \in {} |-> 0], streams |-> <<>>,
            totalEventsSent |-> 0, lastEventTime |-> NoTime],
     pingInterval |-> [active |-> TRUE, nextFire |-> t + cfg.pingInterval]]

\* manager.destroy() on a dispatcher the facade holds.
DestroyManager(manager) ==
    [manager EXCEPT !.pingInterval = [active |-> FALSE, nextFire |-> NoTime],
                    !.m = destroy(@).m]

\* initializeSSE that installs the new dispatcher without destroying the
\* previous one.
initializeSSE_KeepsPrevious(f, cfg, t) ==
    [f EXCEPT !.managers = Append(@, NewSSEManager(cfg, t)),
              !.sseManager = Len(f.managers) + 1]

\* initializeSSE(config): destroy the current dispatcher, if any, then
\* construct and install a new one.
initializeSSE(f, cfg, t) ==
    LET f1 == IF f.sseManager # 0
              THEN [f EXCEPT !.managers[f.sseManager] = DestroyManager(@)]
              ELSE f
    IN  [f1 EXCEPT !.managers = Append(@, NewSSEManager(cfg, t)),
                   !.sseManager = Len(f.managers) + 1]

\* getSSEManager(): construct the dispatcher on first use; the facade
\* afterwards, whose sseManager is the instance returned.
getSSEManager(f, cfg, t) ==
    IF f.sseManager = 0
    THEN [f EXCEPT !.managers = Append(@, NewSSEManager(cfg, t)),
                   !.sseManager = Len(f.managers) + 1]
    ELSE f

\* cleanupSSE(): destroy the current dispatcher, if any, and forget it.
cleanupSSE(f) ==
    IF f.sseManager # 0
    THEN [f EXCEPT !.managers[f.sseManager] = DestroyManager(@),
                   !.sseManager = 0]
    ELSE f

\* Connections created so far by all the facade's dispatchers.
FacadeStreams(f) ==
    { p \in (1..Len(f.managers)) \X (1..MaxConns) :
          p[2] <= Len(f.managers[p[1]].m.streams) }

\* The dispatcher fields left alone by the facade's own steps.
dispatcherVars == <<config, clients, streams, pingInterval, totalEventsSent,
                    lastEventTime, now>>

InitFacade ==
    /\ config \in Configs
    /\ clients = [k \in {} |-> 0]
    /\ streams = <<>>
    /\ pingInterval = [active |-> FALSE, nextFire |-> NoTime]
    /\ totalEventsSent = 0
    /\ lastEventTime = NoTime
    /\ now = 0
    /\ facade = NoFacade
    /\ legacy = NoLegacy
    /\ subscriber = NoSubscriber
    /\ last = [op |-> "load", instance |-> 0]

InitializeSSE(cfg) ==
    /\ Len(facade.managers) < MaxManagers
    /\ facade' = initializeSSE(facade, cfg, now)
    /\ last' = [op |-> "initializeSSE", instance |-> facade'.sseManager]
    /\ UNCHANGED <<dispatcherVars, subscriber, legacy>>

\* A caller that only fetches the dispatcher (the stats route).
GetSSEManager ==
    /\ facade.sseManager = 0 => Len(facade.managers) < MaxManagers
    /\ facade' = getSSEManager(facade, config, now)
    /\ last' = [op |-> "getSSEManager", instance |-> facade'.sseManager]
    /\ UNCHANGED <<dispatcherVars, subscriber, legacy>>

CleanupSSE ==
    /\ facade' = cleanupSSE(facade)
    /\ last' = [op |-> "cleanupSSE", instance |-> 0]
    /\ UNCHANGED <<dispatcherVars, subscriber, legacy>>

\* The connect route: getSSEManager().createConnection(options).
Connect(options, suffix) ==
    /\ facade.sseManager = 0 => Len(facade.managers) < MaxManagers
    /\ LET f == getSSEManager(facade, config, now)
           i == f.sseManager
           r == createConnection(f.managers[i].m, now, f.managers[i].config,
                                 options, suffix)
       IN  /\ r.threw \/ Cardinality(FacadeStreams(f)) < MaxConns
           /\ facade' = [f EXCEPT !.managers[i].m = r.m]
           /\ last' = [op |-> "connect", instance |-> i, threw |-> r.threw]
    /\ UNCHANGED <<dispatcherVars, subscriber, legacy>>

\* The consumer of a connection goes away: the stream's cancel hook runs
\* disconnectClient on the dispatcher that created the connection.
Abort(i, c) ==
    /\ ~facade.managers[i].m.streams[c].cancelled
    /\ LET m1 == [facade.managers[i].m EXCEPT
                    !.streams[c].cancelled = TRUE,
                    !.streams[c].state =
                        IF @ = "open" THEN "closedByTransport" ELSE @]
           r == disconnectClient(m1, m1.streams[c].clientId)
       IN  /\ facade' = [facade EXCEPT !.managers[i].m = r.m]
           /\ last' = [op |-> "abort", instance |-> i]
    /\ UNCHANGED <<dispatcherVars, subscriber, legacy>>

\* The facade's lifecycle calls and the connect route.
NextFacade ==
    \/ \E cfg \in Configs : InitializeSSE(cfg)
    \/ \E p \in FacadeStreams(facade) : Abort(p[1], p[2])
    \/ GetSSEManager
    \/ CleanupSSE
    \/ \E options \in ConnectOptions :
          \E suffix \in
              IF facade.sseManager = 0 THEN {0}
              ELSE Suffixes({ facade.managers[facade.sseManager].m.streams[c].clientId :
                                c \in 1..Len(facade.managers[facade.sseManager].m.streams) },
                            now) :
              Connect(options, suffix)

SpecFacade == InitFacade /\ [][NextFacade]_vars

\* ------------------------------------------------------ facade: publishing
\* notifyUser(userId, event) = getSSEManager().sendToUser(userId, event)
notifyUser(f, cfg, t, userId, event) ==
    LET f1 == getSSEManager(f, cfg, t)
        i == f1.sseManager
        r == sendToUser(f1.managers[i].m, t, userId, event)
    IN  [f |-> [f1 EXCEPT !.managers[i].m = r.m], ret |-> r.ret,
         delivered |-> r.delivered, failed |-> r.failed, threw |-> r.threw]

\* notifyUsers(userIds, event): one sendToUser per entry of the list, the
\* counts added up.
RECURSIVE NotifyEach(_, _, _, _, _, _)
NotifyEach(f, cfg, t, userIds, event, acc) ==
    IF userIds = <<>> \/ acc.threw
    THEN [f |-> f, ret |-> acc.ret, delivered |-> acc.delivered,
          failed |-> acc.failed, threw |-> acc.threw]
    ELSE LET r == notifyUser(f, cfg, t, Head(userIds), event)
         IN  NotifyEach(r.f, cfg, t, Tail(userIds), event,
                        [ret |-> acc.ret + r.ret,
                         delivered |-> acc.delivered \cup r.delivered,
                         failed |-> acc.failed \cup r.failed,
                         threw |-> r.threw])

notifyUsers(f, cfg, t, userIds, event) ==
    NotifyEach(f, cfg, t, userIds, event,
               [ret |-> 0, delivered |-> {}, failed |-> {}, threw |-> FALSE])

\* The facade's broadcast(event) = getSSEManager().broadcast(event)
facadeBroadcast(f, cfg, t, event) ==
    LET f1 == getSSEManager(f, cfg, t)
        i == f1.sseManager
        r == broadcast(f1.managers[i].m, t, event)
    IN  [f |-> [f1 EXCEPT !.managers[i].m = r.m], ret |-> r.ret,
         delivered |-> r.delivered, failed |-> r.failed, threw |-> r.threw]

\* realtimeUpdate(type, data, targetUsers): targetUsers is None when the
\* argument is omitted, Some sequence of user ids otherwise.
realtimeUpdate(f, cfg, t, data, targetUsers) ==
    LET event == [event |-> "update", data |-> data] IN
    IF targetUsers.defined /\ Len(targetUsers.value) > 0
    THEN notifyUsers(f, cfg, t, targetUsers.value, event)
    ELSE facadeBroadcast(f, cfg, t, event)

MathMin(a, b) == IF a <= b THEN a ELSE b
MathMax(a, b) == IF a >= b THEN a ELSE b

\* The progress field without the lower bound.
ClampProgress_NoLowerBound(progress) == MathMin(100, progress)

\* Math.min(100, Math.max(0, progress))
ClampProgress(progress) == MathMin(100, MathMax(0, progress))

\* The event progressUpdate builds.
ProgressEvent(progress) ==
    [event |-> "progress", data |-> "object",
     progress |-> ClampProgress(progress)]

\* progressUpdate(operationId, progress, message, userId)
progressUpdate(f, cfg, t, progress, userId) ==
    IF Truthy(userId)
    THEN notifyUser(f, cfg, t, userId, ProgressEvent(progress))
    ELSE facadeBroadcast(f, cfg, t, ProgressEvent(progress))

\* errorNotification(error, context, userId): context is "object" or
\* "circular" as the data of Events.
errorNotification(f, cfg, t, context, userId) ==
    IF Truthy(userId)
    THEN notifyUser(f, cfg, t, userId, [event |-> "error", data |-> context])
    ELSE facadeBroadcast(f, cfg, t, [event |-> "error", data |-> context])

\* successNotification(message, data, userId)
successNotification(f, cfg, t, data, userId) ==
    IF Truthy(userId)
    THEN notifyUser(f, cfg, t, userId, [event |-> "success", data |-> data])
    ELSE facadeBroadcast(f, cfg, t, [event |-> "success", data |-> data])

\* targetUsers arguments: omitted, empty, one user, two users, an empty id.
TargetUsers ==
    {None, Some(<<>>), Some(<<"user1">>), Some(<<"user1", "user2">>),
     Some(<<"">>)}

\* progress arguments on both sides of and inside [0, 100].
ProgressInputs == {-1000, -1, 0, 1, 50, 100, 101, 1000}

RealtimeUpdate(data, targetUsers) ==
    LET r == realtimeUpdate(facade, config, now, data, targetUsers) IN
    /\ r.f.managers[r.f.sseManager].m.totalEventsSent <= MaxEvents
    /\ facade' = r.f
    /\ last' = [op |-> "realtimeUpdate", instance |-> r.f.sseManager,
                targetUsers |-> targetUsers, count |-> r.ret,
                delivered |-> r.delivered, failed |-> r.failed,
                threw |-> r.threw]
    /\ UNCHANGED <<dispatcherVars, subscriber, legacy>>

ProgressUpdate(progress, userId) ==
    LET r == progressUpdate(facade, config, now, progress, userId) IN
    /\ r.f.managers[r.f.sseManager].m.totalEventsSent <= MaxEvents
    /\ facade' = r.f
    /\ last' = [op |-> "progressUpdate", instance |-> r.f.sseManager,
                userId |-> userId,
                progress |-> progress, event |-> ProgressEvent(progress),
                count |-> r.ret, delivered |-> r.delivered,
                failed |-> r.failed, threw |-> r.threw]
    /\ UNCHANGED <<dispatcherVars, subscriber, legacy>>

\* What a facade call addressed to at most one user did.
Addressed(op, userId, r) ==
    /\ r.f.managers[r.f.sseManager].m.totalEventsSent <= MaxEvents
    /\ facade' = r.f
    /\ last' = [op |-> op, instance |-> r.f.sseManager, userId |-> userId,
                count |-> r.ret, delivered |-> r.delivered,
                failed |-> r.failed, threw |-> r.threw]
    /\ UNCHANGED <<dispatcherVars, subscriber, legacy>>

NotifyUser(userId, event) ==
    Addressed("notifyUser", userId,
              notifyUser(facade, config, now, userId, event))

ErrorNotification(context, userId) ==
    Addressed("errorNotification", userId,
              errorNotification(facade, config, now, context, userId))

SuccessNotification(data, userId) ==
    Addressed("successNotification", userId,
              successNotification(facade, config, now, data, userId))

\* The connect route and the facade's publishing helpers.
NextPublish ==
    \/ \E options \in ConnectOptions :
          \E suffix \in
              IF facade.sseManager = 0 THEN {0}
              ELSE Suffixes({ facade.managers[facade.sseManager].m.streams[c].clientId :
                                c \in 1..Len(facade.managers[facade.sseManager].m.streams) },
                            now) :
              Connect(options, suffix)
    \/ \E p \in FacadeStreams(facade) : Abort(p[1], p[2])
    \/ \E data \in {"object", "circular"}, targetUsers \in TargetUsers :
          RealtimeUpdate(data, targetUsers)
    \/ \E progress \in ProgressInputs, userId \in {Undefined, "", "user1"} :
          ProgressUpdate(progress, userId)
    \/ \E userId \in UserIdArgs, event \in Events : NotifyUser(userId, event)
    \/ \E context \in {"object", "circular"}, userId \in {Undefined, "", "user1"} :
          ErrorNotification(context, userId)
    \/ \E data \in {"object", "circular"}, userId \in {Undefined, "", "user1"} :
          SuccessNotification(data, userId)

SpecPublish == InitFacade /\ [][NextPublish]_vars

\* ------------------------------------------------------------- subscriber
\* The useSSE hook.  eventSource is the state of eventSourceRef.current:
\* "none" (null), "connecting", "open" or "closed" (readyState CLOSED).
\* reconnectTimeout is reconnectTimeoutRef.current: handle says the ref is
\* not null, pending that the timer has neither fired nor been cleared,
\* delay the delay it was set with.
\* timers counts the timers setTimeout has created that have neither fired
\* nor been cleared.  sets is the heap of Set objects created
\* by addEventListener (each in insertion order), eventListeners the Map
\* from event type to its Set, cleanups the functions addEventListener has
\* returned (called: observation only).
NoTimeout == [handle |-> FALSE, pending |-> FALSE, delay |-> 0]

Mounted(options) ==
    [mounted |-> TRUE, options |-> options,
     isConnected |-> FALSE, isConnecting |-> TRUE, error |-> "null",
     lastEvent |-> None, reconnectAttempts |-> 0,
     eventSource |-> "connecting", reconnectTimeout |-> NoTimeout,
     timers |-> 0,
     eventListeners |-> [k \in {} |-> 0], sets |-> <<>>, cleanups |-> <<>>]

\* The defaults of the options destructuring.
DefaultOptions ==
    [autoReconnect |-> TRUE, reconnectInterval |-> 5000,
     maxReconnectAttempts |-> 10]

\* Options a component passes to the hook.
HookOptions ==
    [autoReconnect : BOOLEAN, reconnectInterval : {0, 5000, 20000},
     maxReconnectAttempts : {0, 2, 3}]

\* Math.pow(2, n) for a non-negative integer n.
RECURSIVE MathPow2(_)
MathPow2(n) == IF n = 0 THEN 1 ELSE 2 * MathPow2(n - 1)

\* The back-off without the 30 s cap.
backoffDelay_Uncapped(reconnectInterval, attempts) ==
    reconnectInterval * MathPow2(attempts)

\* Math.min(reconnectInterval * Math.pow(2, attempts), 30000)
backoffDelay(reconnectInterval, attempts) ==
    MathMin(reconnectInterval * MathPow2(attempts), 30000)

\* connect(): nothing if the connection is open; otherwise the existing
\* EventSource is closed and a new one is created.
connect(s) ==
    IF s.eventSource = "open" THEN s
    ELSE [s EXCEPT !.eventSource = "connecting", !.isConnecting = TRUE,
                   !.error = "null"]

\* eventSource.onopen that leaves isConnecting alone.
onopen_KeepsConnecting(s) ==
    [s EXCEPT !.eventSource = "open", !.isConnected = TRUE,
              !.error = "null", !.reconnectAttempts = 0]

\* eventSource.onopen that leaves the attempt counter alone.
onopen_KeepsAttempts(s) ==
    [s EXCEPT !.eventSource = "open", !.isConnected = TRUE,
              !.isConnecting = FALSE, !.error = "null"]

\* eventSource.onopen
onopen(s) ==
    [s EXCEPT !.eventSource = "open", !.isConnected = TRUE,
              !.isConnecting = FALSE, !.error = "null",
              !.reconnectAttempts = 0]

\* eventSource.onerror that still retries when the counter equals the
\* maximum.
onerror_OffByOne(s, readyState) ==
    LET s1 == [s EXCEPT !.eventSource = readyState, !.isConnected = FALSE,
                        !.isConnecting = FALSE, !.error = "Connection error"]
        attempts == s.reconnectAttempts
    IN  IF s.options.autoReconnect /\ attempts <= s.options.maxReconnectAttempts
        THEN LET delay == backoffDelay(s.options.reconnectInterval, attempts)
             IN  [s |-> [s1 EXCEPT !.reconnectTimeout =
                                       [handle |-> TRUE, pending |-> TRUE,
                                        delay |-> delay],
                                   !.timers =
                                       IF s.reconnectTimeout.pending
                                       THEN @ ELSE @ + 1,
                                   !.reconnectAttempts = attempts + 1],
                  scheduled |-> TRUE, delay |-> delay]
        ELSE [s |-> s1, scheduled |-> FALSE, delay |-> 0]

\* eventSource.onerror: readyState is the state the browser leaves the
\* EventSource in ("connecting" when it retries by itself, "closed" when
\* it gives up).
onerror(s, readyState) ==
    LET s1 == [s EXCEPT !.eventSource = readyState, !.isConnected = FALSE,
                        !.isConnecting = FALSE, !.error = "Connection error"]
        attempts == s.reconnectAttempts
    IN  IF s.options.autoReconnect /\ attempts < s.options.maxReconnectAttempts
        THEN LET delay == backoffDelay(s.options.reconnectInterval, attempts)
             IN  [s |-> [s1 EXCEPT !.reconnectTimeout =
                                       [handle |-> TRUE, pending |-> TRUE,
                                        delay |-> delay],
                                   !.timers =
                                       IF s.reconnectTimeout.pending
                                       THEN @ ELSE @ + 1,
                                   !.reconnectAttempts = attempts + 1],
                  scheduled |-> TRUE, delay |-> delay]
        ELSE IF attempts >= s.options.maxReconnectAttempts
        THEN [s |-> [s1 EXCEPT !.error =
                                   "Maximum reconnection attempts reached"],
              scheduled |-> FALSE, delay |-> 0]
        ELSE [s |-> s1, scheduled |-> FALSE, delay |-> 0]

\* disconnect() without the clearTimeout.
disconnect_KeepsTimer(s) ==
    [s EXCEPT !.eventSource = "none", !.isConnected = FALSE,
              !.isConnecting = FALSE, !.reconnectAttempts = 0]

\* disconnect()
disconnect(s) ==
    [s EXCEPT !.reconnectTimeout = IF @.handle THEN NoTimeout ELSE @,
              !.timers = IF s.reconnectTimeout.pending THEN @ - 1 ELSE @,
              !.eventSource = "none", !.isConnected = FALSE,
              !.isConnecting = FALSE, !.reconnectAttempts = 0]

InitReconnect ==
    /\ config \in Configs
    /\ clients = [k \in {} |-> 0]
    /\ streams = <<>>
    /\ pingInterval = [active |-> FALSE, nextFire |-> NoTime]
    /\ totalEventsSent = 0
    /\ lastEventTime = NoTime
    /\ now = 0
    /\ facade = NoFacade
    /\ legacy = NoLegacy
    /\ \E options \in HookOptions : subscriber = Mounted(options)
    /\ last = [op |-> "mount"]

OnOpen ==
    /\ subscriber.mounted
    /\ subscriber.eventSource = "connecting"
    /\ subscriber' = onopen(subscriber)
    /\ last' = [op |-> "onopen", attempts |-> subscriber.reconnectAttempts]
    /\ UNCHANGED <<dispatcherVars, facade, legacy>>

OnError(readyState) ==
    /\ subscriber.mounted
    /\ subscriber.eventSource \in {"connecting", "open"}
    /\ LET r == onerror(subscriber, readyState)
       IN  /\ subscriber' = r.s
           /\ last' = [op |-> "onerror", scheduled |-> r.scheduled,
                       delay |-> r.delay,
                       attempts |-> subscriber.reconnectAttempts,
                       wasOpen |-> subscriber.eventSource = "open"]
    /\ UNCHANGED <<dispatcherVars, facade, legacy>>

\* The reconnect timer fires: connect().
ReconnectTimeout ==
    /\ subscriber.reconnectTimeout.pending
    /\ subscriber' =
           connect([subscriber EXCEPT !.reconnectTimeout.pending = FALSE,
                                      !.timers = @ - 1])
    /\ last' = [op |-> "reconnectTimeout"]
    /\ UNCHANGED <<dispatcherVars, facade, legacy>>

\* The component calls the connect() the hook returned.
ConnectCall ==
    /\ subscriber.mounted
    /\ subscriber' = connect(subscriber)
    /\ last' = [op |-> "connect"]
    /\ UNCHANGED <<dispatcherVars, facade, legacy>>

\* The component calls the disconnect() the hook returned.
Disconnect ==
    /\ subscriber.mounted
    /\ subscriber' = disconnect(subscriber)
    /\ last' = [op |-> "disconnect",
                cleared |-> subscriber.reconnectTimeout.pending]
    /\ UNCHANGED <<dispatcherVars, facade, legacy>>

\* The effect's cleanup on unmount.
Unmount ==
    /\ subscriber.mounted
    /\ subscriber' = [disconnect(subscriber) EXCEPT !.mounted = FALSE]
    /\ last' = [op |-> "unmount"]
    /\ UNCHANGED <<dispatcherVars, facade, legacy>>

NextReconnect ==
    \/ OnOpen
    \/ \E readyState \in {"connecting", "closed"} : OnError(readyState)
    \/ ReconnectTimeout
    \/ ConnectCall
    \/ Disconnect
    \/ Unmount

SpecReconnect == InitReconnect /\ [][NextReconnect]_vars

\* -------------------------------------------------- subscriber: listeners
\* Handlers a component registers; throws says whether the handler raises
\* an exception when it is called.
Handlers ==
    { [name |-> "h1", throws |-> FALSE],
      [name |-> "h2", throws |-> FALSE],
      [name |-> "h3", throws |-> TRUE] }

\* Event types components register handlers for.
ListenerTypes == {"message", "update", "notification"}

\* The event types connect() registers on the EventSource.
NamedEvents ==
    {"connected", "ping", "demo", "system", "update", "progress", "success",
     "error"}

\* Events the server delivers: the event field of the block (None when the
\* block has none) and its data, "json" when JSON.parse accepts the text,
\* "text" when it does not.
ServerEvents ==
    [event : {None, Some("update"), Some("notification")},
     data : {"json", "text"}]

\* Set.prototype.add / delete on a Set kept in insertion order.
SetAdd(set, x) ==
    IF \E i \in 1..Len(set) : set[i] = x THEN set ELSE Append(set, x)
SetDelete(set, x) == SelectSeq(set, LAMBDA y : y # x)

\* addEventListener(eventType, handler): the returned cleanup function is
\* appended to cleanups; it holds the Set it was created for.
addEventListener(s, eventType, handler) ==
    LET s1 == IF eventType \notin DOMAIN s.eventListeners
              THEN [s EXCEPT !.sets = Append(@, <<>>),
                             !.eventListeners =
                                 MapSet(@, eventType, Len(s.sets) + 1)]
              ELSE s
        listeners == s1.eventListeners[eventType]
    IN  [s1 EXCEPT !.sets[listeners] = SetAdd(@, handler),
                   !.cleanups = Append(@, [eventType |-> eventType,
                                           listeners |-> listeners,
                                           handler |-> handler,
                                           called |-> FALSE])]

\* The cleanup function returned by the k-th addEventListener call.
cleanup(s, k) ==
    LET c == s.cleanups[k]
        s1 == [s EXCEPT !.sets[c.listeners] = SetDelete(@, c.handler),
                        !.cleanups[k].called = TRUE]
    IN  IF Len(s1.sets[c.listeners]) = 0
        THEN [s1 EXCEPT !.eventListeners =
                            IF c.eventType \in DOMAIN @
                            THEN MapDelete(@, c.eventType) ELSE @]
        ELSE s1

\* triggerEventListeners without the try/catch: the first exception ends
\* the loop and leaves the dispatch.
triggerEventListeners_NoCatch(s, eventType) ==
    IF eventType \in DOMAIN s.eventListeners
    THEN LET listeners == s.sets[s.eventListeners[eventType]]
             throwing == { i \in 1..Len(listeners) : listeners[i].throws }
         IN  IF throwing = {}
             THEN [invoked |-> listeners, threw |-> FALSE]
             ELSE [invoked |->
                       SubSeq(listeners, 1,
                              CHOOSE i \in throwing :
                                  \A k \in throwing : i <= k),
                   threw |-> TRUE]
    ELSE [invoked |-> <<>>, threw |-> FALSE]

\* listeners.forEach((handler) => { try { handler(event) } catch {} })
RECURSIVE ForEachListener(_, _)
ForEachListener(listeners, invoked) ==
    IF listeners = <<>> THEN [invoked |-> invoked, threw |-> FALSE]
    ELSE ForEachListener(Tail(listeners), Append(invoked, Head(listeners)))

\* triggerEventListeners(eventType, event): the handlers invoked, in order,
\* and whether an exception left the call.
triggerEventListeners(s, eventType) ==
    IF eventType \in DOMAIN s.eventListeners
    THEN ForEachListener(s.sets[s.eventListeners[eventType]], <<>>)
    ELSE [invoked |-> <<>>, threw |-> FALSE]

\* The type the browser dispatches a block under.
EventType(event) == IF event.event.defined THEN event.event.value ELSE "message"

\* onmessage / handleNamedEvent(eventType) for a block the server sent:
\* the browser calls a handler only for "message" and the registered named
\* types, and the handler dispatches only what JSON.parse accepts.
handleEvent(s, event) ==
    IF /\ EventType(event) = "message" \/ EventType(event) \in NamedEvents
       /\ event.data = "json"
    THEN LET r == triggerEventListeners(s, EventType(event))
         IN  [s |-> [s EXCEPT !.lastEvent = Some(EventType(event))],
              dispatched |-> TRUE, invoked |-> r.invoked, threw |-> r.threw]
    ELSE [s |-> s, dispatched |-> FALSE, invoked |-> <<>>, threw |-> FALSE]

InitListeners ==
    /\ config \in Configs
    /\ clients = [k \in {} |-> 0]
    /\ streams = <<>>
    /\ pingInterval = [active |-> FALSE, nextFire |-> NoTime]
    /\ totalEventsSent = 0
    /\ lastEventTime = NoTime
    /\ now = 0
    /\ facade = NoFacade
    /\ legacy = NoLegacy
    /\ subscriber = Mounted(DefaultOptions)
    /\ last = [op |-> "mount"]

AddEventListener(eventType, handler) ==
    /\ subscriber.mounted
    /\ Len(subscriber.cleanups) < MaxListeners
    /\ subscriber' = addEventListener(subscriber, eventType, handler)
    /\ last' = [op |-> "addEventListener"]
    /\ UNCHANGED <<dispatcherVars, facade, legacy>>

\* The component calls a cleanup function it was given (again, possibly).
Cleanup(k) ==
    /\ subscriber' = cleanup(subscriber, k)
    /\ last' = [op |-> "cleanup"]
    /\ UNCHANGED <<dispatcherVars, facade, legacy>>

\* The server's block arrives on the open connection.
Deliver(event) ==
    /\ subscriber.mounted
    /\ subscriber.eventSource = "open"
    /\ LET r == handleEvent(subscriber, event)
       IN  /\ subscriber' = r.s
           /\ last' = [op |-> "deliver", event |-> event,
                       dispatched |-> r.dispatched, invoked |-> r.invoked,
                       threw |-> r.threw]
    /\ UNCHANGED <<dispatcherVars, facade, legacy>>

NextListeners ==
    \/ OnOpen
    \/ \E eventType \in ListenerTypes, handler \in Handlers :
          AddEventListener(eventType, handler)
    \/ \E k \in 1..Len(subscriber.cleanups) : Cleanup(k)
    \/ \E event \in ServerEvents : Deliver(event)

SpecListeners == InitListeners /\ [][NextListeners]_vars

\* ------------------------------------------------- legacy event producer
\* The sendToClient(id, event, data) of lib/sseManager.ts: the payload is
\* written to the res registered under id, if there is one.
legacySendToClient(l, id, event) ==
    IF id \in DOMAIN l.clients
    THEN [l |-> [l EXCEPT !.clients[id] = Append(@, event)], written |-> {id}]
    ELSE [l |-> l, written |-> {}]

\* sendNotificationToUser(userId, message) =
\* sseManager.sendToClient(userId, "notification", { message })
sendNotificationToUser(l, userId) ==
    legacySendToClient(l, userId, "notification")

\* The /api/test-event producer.  delivered is the set of the dispatcher's
\* sinks written to: the call does not touch the dispatcher.
SendNotificationToUser(userId) ==
    LET r == sendNotificationToUser(legacy, userId) IN
    /\ legacy' = r.l
    /\ last' = [op |-> "sendNotificationToUser", userId |-> userId,
                written |-> r.written, delivered |-> {}]
    /\ UNCHANGED <<dispatcherVars, facade, subscriber>>

\* Browsers open and drop connections through GET /api/sse while the
\* producers publish.
NextProducers ==
    \/ \E options \in ConnectOptions :
          \E suffix \in
              IF facade.sseManager = 0 THEN {0}
              ELSE Suffixes({ facade.managers[facade.sseManager].m.streams[c].clientId :
                                c \in 1..Len(facade.managers[facade.sseManager].m.streams) },
                            now) :
              Connect(options, suffix)
    \/ \E p \in FacadeStreams(facade) : Abort(p[1], p[2])
    \/ \E userId \in {"user1", "user2"} : SendNotificationToUser(userId)
    \/ \E userId \in {"user1", "user2"} :
          NotifyUser(userId, [event |-> "notification", data |-> "object"])

SpecProducers == InitFacade /\ [][NextProducers]_vars

\* ------------------------------------------------- rate-limit middleware
\* What a request meets on its way through rateLimitMiddleware: the path,
\* the headers present, whether getRedis and getRateLimiter resolve or
\* reject, what limiter.limit(ip) answers, and what the downstream handler
\* does on its first and on its second invocation.
Requests ==
    [isSSEEndpoint : BOOLEAN,
     headers : SUBSET {"x-forwarded-for", "x-real-ip", "host"},
     getRedis : {"ok", "throws"},
     getRateLimiter : {"ok", "throws"},
     limit : {"success", "exceeded", "throws"},
     next : [1..2 -> {"ok", "throws"}]]

\* The client key: the first header present, else "unknown".
ClientIp(req) ==
    IF "x-forwarded-for" \in req.headers THEN "x-forwarded-for"
    ELSE IF "x-real-ip" \in req.headers THEN "x-real-ip"
    ELSE IF "host" \in req.headers THEN "host"
    ELSE "unknown"

\* The catch block: next() is invoked; calls is the number of invocations
\* made inside the try.
RateLimitCatch(req, calls) ==
    IF req.next[calls + 1] = "ok"
    THEN [threw |-> FALSE, status |-> 200, rateLimitHeaders |-> FALSE,
          nextCalls |-> calls + 1, ip |-> "none"]
    ELSE [threw |-> TRUE, status |-> 0, rateLimitHeaders |-> FALSE,
          nextCalls |-> calls + 1, ip |-> "none"]

\* rateLimitMiddleware(req, next): the answer (status 0 when it rejects),
\* whether it carries the X-RateLimit headers, the key the limiter was
\* asked about and the number of times next was invoked.
rateLimitMiddleware(req) ==
    IF req.getRedis = "throws" \/ req.getRateLimiter = "throws"
          \/ req.limit = "throws"
    THEN RateLimitCatch(req, 0)
    ELSE IF req.limit = "exceeded"
    THEN [threw |-> FALSE, status |-> 429, rateLimitHeaders |-> TRUE,
          nextCalls |-> 0, ip |-> ClientIp(req)]
    ELSE IF req.next[1] = "ok"
    THEN [threw |-> FALSE, status |-> 200, rateLimitHeaders |-> TRUE,
          nextCalls |-> 1, ip |-> ClientIp(req)]
    ELSE RateLimitCatch(req, 1)

\* A request about to enter the middleware.
InitRateLimit ==
    /\ config \in Configs
    /\ clients = [k \in {} |-> 0]
    /\ streams = <<>>
    /\ pingInterval = [active |-> FALSE, nextFire |-> NoTime]
    /\ totalEventsSent = 0
    /\ lastEventTime = NoTime
    /\ now = 0
    /\ facade = NoFacade
    /\ legacy = NoLegacy
    /\ subscriber = NoSubscriber
    /\ last \in { [op |-> "request", req |-> req] : req \in Requests }

\* The middleware handles the request.
RateLimitMiddleware ==
    /\ last.op = "request"
    /\ last' = [op |-> "rateLimitMiddleware", req |-> last.req,
                result |-> rateLimitMiddleware(last.req)]
    /\ UNCHANGED <<dispatcherVars, facade, subscriber, legacy>>

NextRateLimit == RateLimitMiddleware

SpecRateLimit == InitRateLimit /\ [][NextRateLimit]_vars

TypeOK ==
    /\ config \in Configs \cup SweepConfigs
    /\ now \in 0..MaxTime
    /\ Len(streams) <= MaxConns
    /\ totalEventsSent \in 0..MaxEvents
    /\ Registered(Manager) \subseteq 1..Len(streams)

\* ----------------------------------------------------------------- claims
RegisteredNow == Registered(Manager)
RegistrySize == Cardinality(DOMAIN clients)
\* The registered connections whose sink rejects a write.
Rejecting == { c \in RegisteredNow : EnqueueThrows(streams[c].state) }
\* The registered connections (by stream) whose userId is u.
StreamsOfUser(u) ==
    { clients[k].controller : k \in { x \in DOMAIN clients : clients[x].userId = u } }

\* C1: createConnection called with fewer than maxClients registered
\* succeeds and grows the registry by exactly one; called with maxClients
\* registered it throws and leaves the registry unchanged.
C1_CreateConnectionCapacity ==
    [][last'.op = "createConnection" =>
          IF RegistrySize < config.maxClients
          THEN ~last'.threw /\ RegistrySize' = RegistrySize + 1
          ELSE last'.threw /\ clients' = clients]_vars

\* C2: broadcast(e) of an event that serializes, with N registered
\* connections of which k have sinks that reject the write, returns N - k,
\* throws nothing, unregisters exactly the k failing connections and keeps
\* the other N - k registered.
C2_BroadcastCountsSuccesses ==
    [][\A e \in Events :
          (~FormatThrows(e) /\ Broadcast(e)) =>
              /\ last'.count = Cardinality(RegisteredNow) - Cardinality(Rejecting)
              /\ ~last'.threw
              /\ last'.delivered = RegisteredNow \ Rejecting
              /\ RegisteredNow' = RegisteredNow \ Rejecting]_vars

\* A broadcast to two registered connections, one of whose sinks rejected
\* the write: it returned 1 and only the other connection is registered.
C2_Witness ==
    /\ last.op = "broadcast"
    /\ last.count = 1
    /\ Cardinality(last.failed) = 1
    /\ Cardinality(RegisteredNow) = 1
    /\ last.delivered = RegisteredNow
    /\ \A c \in last.failed : streams[c].state = "closedExternally"

\* C3: for every userId u, sendToUser(u, e) with every sink accepting
\* writes returns the number of registered connections whose userId is u,
\* writes e to those connections only, and changes no connection.
C3_SendToUserExact ==
    [][\A u \in UserIdArgs, e \in Events :
          (~FormatThrows(e) /\ Rejecting = {} /\ SendToUser(u, e)) =>
              /\ last'.count = Cardinality(StreamsOfUser(u))
              /\ last'.delivered = StreamsOfUser(u)
              /\ clients' = clients
              /\ streams' = streams]_vars

\* What the claim says a filter selects: every criterion the filter lists
\* holds for the client.
Selects(filter, client) ==
    /\ filter.userId # Undefined => client.userId = filter.userId
    /\ filter.sessionId # Undefined => client.sessionId = filter.sessionId
    /\ filter.hasClientIds => client.id \in filter.clientIds
    /\ filter.hasMetadata =>
          \A p \in filter.metadata : MetaGet(client.metadata, p[1]) = p[2]

\* C4: sendToClients(filter, e) selects a registered connection if and only
\* if every criterion present in the filter holds for it; the empty filter
\* selects every registered connection.
C4_FilterIsConjunction ==
    [][\A f \in Filters, e \in Events :
          (~FormatThrows(e) /\ Rejecting = {} /\ SendToClients(f, e)) =>
              last'.delivered =
                 { clients[k].controller :
                      k \in { x \in DOMAIN clients : Selects(f, clients[x]) } }]_vars

\* C5: a failed send always implies disconnection: sendToClient to a
\* registered connection whose sink rejects the write returns false and
\* leaves the connection unregistered with its sink closed, and no
\* reachable state has a connection that failed a send and is registered.
C5_FailedSendDisconnects ==
    /\ [](\A c \in 1..Len(streams) :
             streams[c].sendFailed =>
                 c \notin RegisteredNow /\ streams[c].state # "open")
    /\ [][\A id \in DOMAIN clients, e \in Events :
             (EnqueueThrows(streams[clients[id].controller].state)
              /\ SendToClient(id, e)) =>
                 /\ ~last'.ret
                 /\ ~last'.threw
                 /\ id \notin DOMAIN clients'
                 /\ streams'[clients[id].controller].sendFailed
                 /\ streams'[clients[id].controller].state # "open"]_vars

\* sendToClient has just failed against a registered connection whose
\* controller had been closed: it returned false and the connection is gone.
C5_Witness ==
    /\ last.op = "sendToClient"
    /\ ~last.ret
    /\ \E c \in last.failed :
          /\ streams[c].state = "closedExternally"
          /\ streams[c].sendFailed
          /\ c \notin RegisteredNow

\* The send operations with an event that does not serialize, addressed to
\* at least one registered connection.
UnserializableSend(e) ==
    /\ FormatThrows(e)
    /\ \/ RegistrySize > 0 /\ Broadcast(e)
       \/ \E f \in Filters :
             getClientsByFilter(Manager, f) # {} /\ SendToClients(f, e)
       \/ \E id \in DOMAIN clients : SendToClient(id, e)

\* C6: a send whose event data cannot be serialized reports the error to
\* its caller, writes to no sink and disconnects no connection.
C6_SerializationErrorSurfaces ==
    [][\A e \in Events :
          UnserializableSend(e) =>
              /\ last'.threw
              /\ last'.delivered = {}
              /\ clients' = clients]_vars

\* The number of disconnectClient invocations on id that returned true.
TrueReturns(id) ==
    Cardinality({ p \in (1..Len(streams)) \X (1..MaxConns) :
                      streams[p[1]].clientId = id /\ p[2] <= streams[p[1]].teardowns })

\* C7: teardown happens exactly once on every path: a connection that left
\* the registry was removed by exactly one disconnectClient, disconnectClient
\* returned true for at most one invocation on an id, and no teardown path
\* throws.
C7_TeardownExactlyOnce ==
    /\ \A c \in 1..Len(streams) :
          streams[c].teardowns = IF c \in RegisteredNow THEN 0 ELSE 1
    /\ \A id \in AllocatedIds : TrueReturns(id) <= 1
    /\ last.op \in {"disconnectClient", "disconnectUser", "cancel", "destroy",
                    "sendToClient", "sendToClients", "broadcast", "sendToUser"}
          => ~last.threw

\* C8: every connection ever created is either registered exactly once
\* under its own id, with a sink the dispatcher has not closed, or
\* unregistered with a closed sink.
C8_RegistryMatchesSinks ==
    /\ \A k \in DOMAIN clients :
          /\ clients[k].id = k
          /\ streams[clients[k].controller].clientId = k
          /\ \A j \in DOMAIN clients :
                clients[j].controller = clients[k].controller => j = k
    /\ \A c \in 1..Len(streams) :
          IF c \in RegisteredNow
          THEN streams[c].state # "closedByDispatcher"
          ELSE streams[c].state # "open"

\* C9: sendToClient and disconnectClient on an id that is not registered
\* return false, throw nothing and change neither the registry, nor a
\* sink, nor totalEventsSent, nor lastEventTime.
C9_UnknownTargetIsNoOp ==
    [][\A id \in AllocatedIds \cup {NoSuchClient} :
          (/\ id \notin DOMAIN clients
           /\ \/ DisconnectClient(id)
              \/ \E e \in Events : SendToClient(id, e)) =>
              /\ ~last'.ret
              /\ ~last'.threw
              /\ UNCHANGED <<clients, streams, totalEventsSent, lastEventTime>>]_vars

\* disconnectClient has just returned false while a connection that an
\* earlier disconnectClient removed is absent and another is registered.
C9_Witness ==
    /\ last.op = "disconnectClient"
    /\ ~last.ret
    /\ RegistrySize = 1
    /\ \E c \in 1..Len(streams) :
          streams[c].teardowns = 1 /\ streams[c].clientId \notin DOMAIN clients

\* C10: a connection left alone (not disconnected, not aborted, its sink
\* accepting writes) is no longer registered once clientTimeout plus one
\* pingInterval has elapsed since it connected and the timer has run.
C10_StaleClientsCleanedUp ==
    \A k \in DOMAIN clients :
        (/\ streams[clients[k].controller].state = "open"
         /\ pingInterval.active
         /\ pingInterval.nextFire > now) =>
            now - clients[k].connectedAt < config.clientTimeout + config.pingInterval

\* C11: a connection to which no send has succeeded for longer than
\* clientTimeout when a timer tick starts is not registered when that tick
\* ends.  (Under NextTimer the only writes are the connected event and the
\* pings, so lastPing is the time of the last successful write.)
C11_StaleEvictedByNextTick ==
    [][Tick =>
          \A k \in DOMAIN clients :
              now - clients[k].lastPing > config.clientTimeout
                  => clients[k].controller \notin RegisteredNow']_vars

C13_DestroyStopsEverything ==
    [][/\ Destroy =>
            /\ ~pingInterval'.active
            /\ RegistrySize' = 0
            /\ \A c \in 1..Len(streams') : streams'[c].state # "open"
            /\ ~last'.threw
            /\ (~pingInterval.active /\ RegistrySize = 0) =>
                  UNCHANGED <<clients, streams, pingInterval, totalEventsSent,
                              lastEventTime>>
       /\ ~pingInterval.active =>
            ~pingInterval'.active /\ last'.op # "tick"]_vars

\* C14: disconnectUser(u) removes exactly the registered connections whose
\* userId is u, returns their number and leaves every other connection and
\* its sink as they were; getStats() afterwards reports totalClients
\* reduced by that number and no entry for u in clientsByUser.
C14_DisconnectUserExact ==
    [][\A u \in UserIdArgs :
          DisconnectUser(u) =>
              /\ last'.count = Cardinality(StreamsOfUser(u))
              /\ ~last'.threw
              /\ RegisteredNow' = RegisteredNow \ StreamsOfUser(u)
              /\ \A c \in RegisteredNow' : streams'[c] = streams[c]
              /\ getStats(Manager').totalClients =
                    getStats(Manager).totalClients - Cardinality(StreamsOfUser(u))
              /\ u \notin DOMAIN getStats(Manager').clientsByUser]_vars

\* C15: every createConnection registers its connection under an id that
\* the dispatcher has not allocated before: no two connections ever
\* created, registered or not, have the same id.
C15_IdsNeverReused ==
    \A a, b \in 1..Len(streams) :
        streams[a].clientId = streams[b].clientId => a = b

\* C16: maxClients is a hard cap: in every reachable state the number of
\* registered connections is at most maxClients.
C16_MaxClientsIsHardCap == RegistrySize <= config.maxClients

\* A createConnection has just been refused with the registry at capacity.
C16_Witness ==
    /\ last.op = "createConnection"
    /\ last.threw
    /\ RegistrySize = config.maxClients

\* C17: totalEventsSent grows by exactly one per sink write that succeeds
\* and by nothing else (so it never decreases and a failed or unknown-target
\* send leaves it alone), and lastEventTime is set if and only if at least
\* one send has succeeded.
C17_TotalEventsSentCountsWrites ==
    /\ []((lastEventTime # NoTime) <=> (totalEventsSent > 0))
    /\ [][/\ totalEventsSent' = totalEventsSent + Cardinality(last'.delivered)
          /\ last'.op = "sendToClient" =>
                totalEventsSent' = totalEventsSent + (IF last'.ret THEN 1 ELSE 0)
          /\ last'.delivered # {} => lastEventTime' = now]_vars

\* A batched send has just written to one sink and failed on another, after
\* the two connected events: three writes have succeeded in all.
C17_Witness ==
    /\ last.op = "sendToClients"
    /\ last.count = 1
    /\ last.failed # {}
    /\ totalEventsSent = 3
    /\ lastEventTime = now

\* C18: getStats() reports the registry as it is at the call: totalClients
\* is the number of registered connections and, for every userId u,
\* clientsByUser[u] is the number of registered connections whose userId is
\* u, with no entry for a user that has none.
C18_StatsMatchRegistry ==
    last.op = "getStats" =>
        /\ last.stats.totalClients = RegistrySize
        /\ \A u \in UserIdArgs :
              IF StreamsOfUser(u) = {}
              THEN u \notin DOMAIN last.stats.clientsByUser
              ELSE /\ u \in DOMAIN last.stats.clientsByUser
                   /\ last.stats.clientsByUser[u] = Cardinality(StreamsOfUser(u))

\* No line feed in an id or event name (undefined counts as none).
SingleLine(field) ==
    field.defined => \A i \in 1..Len(field.value) : field.value[i] # LineFeed

\* Whether a line of the encoded block starts with the given field prefix.
HasPrefix(line, prefix) ==
    Len(line) >= Len(prefix) /\ SubSeq(line, 1, Len(prefix)) = prefix

\* What a reader of the block gets from its data lines: the contents of the
\* lines that start with `data: `, in order.
DataContents(message) ==
    LET lines == Split(message)
        keep == { i \in 1..Len(lines) : HasPrefix(lines[i], DataPrefix) }
        RECURSIVE Pick(_)
        Pick(i) ==
            IF i > Len(lines) THEN <<>>
            ELSE (IF i \in keep
                  THEN <<SubSeq(lines[i], Len(DataPrefix) + 1, Len(lines[i]))>>
                  ELSE <<>>) \o Pick(i + 1)
    IN  Pick(1)

\* Joining lines with a line feed.
RECURSIVE Join(_)
Join(lines) ==
    IF Len(lines) = 1 THEN Head(lines)
    ELSE Head(lines) \o <<LineFeed>> \o Join(Tail(lines))

\* The lines of a string: the pieces between its line feeds, found by a
\* scan from the left.
RECURSIVE LinesOf(_, _)
LinesOf(text, current) ==
    IF text = <<>> THEN <<current>>
    ELSE IF Head(text) = LineFeed
         THEN <<current>> \o LinesOf(Tail(text), <<>>)
         ELSE LinesOf(Tail(text), Append(current, Head(text)))

\* C19: for every string payload s (in an event whose id and event name
\* hold no line feed), formatSSEMessage emits one data line per line of s,
\* in order, and joining their contents with a line feed gives s back.
C19_MultiLineRoundTrip ==
    (/\ last.op = "formatSSEMessage"
     /\ last.event.data.type = "string"
     /\ SingleLine(last.event.id)
     /\ SingleLine(last.event.event)) =>
        /\ ~last.threw
        /\ DataContents(last.message) = LinesOf(last.event.data.value, <<>>)
        /\ Join(DataContents(last.message)) = last.event.data.value

\* A payload of three lines, the middle one empty, has been encoded.
C19_Witness ==
    /\ last.op = "formatSSEMessage"
    /\ last.event.data = StringData(<<"a", LineFeed, LineFeed>>)
    /\ Len(DataContents(last.message)) = 3

\* The kind of a line of the block: 1 id, 2 event, 3 retry, 4 data, 0 none.
LineKind(line) ==
    IF HasPrefix(line, IdPrefix) THEN 1
    ELSE IF HasPrefix(line, EventPrefix) THEN 2
    ELSE IF HasPrefix(line, RetryPrefix) THEN 3
    ELSE IF HasPrefix(line, DataPrefix) THEN 4
    ELSE 0

\* C20: the encoded block of any event is, in this order, at most one id
\* line, at most one event line, at most one retry line and the data
\* lines, followed by exactly one empty line, with no empty line before it.
C20_BlockLayout ==
    (last.op = "formatSSEMessage" /\ ~last.threw) =>
        LET lines == Split(last.message)
            n == Len(lines)
        IN  /\ n >= 3
            /\ lines[n] = <<>>
            /\ lines[n - 1] = <<>>
            /\ \A i \in 1..(n - 2) : lines[i] # <<>> /\ LineKind(lines[i]) # 0
            /\ \E i \in 1..(n - 2) : LineKind(lines[i]) = 4
            /\ \A i, j \in 1..(n - 2) :
                  i < j => \/ LineKind(lines[i]) < LineKind(lines[j])
                           \/ LineKind(lines[i]) = 4 /\ LineKind(lines[j]) = 4

\* Whether the encoded block has a line that starts with the given prefix.
HasLine(message, prefix) ==
    \E i \in 1..Len(Split(message)) : HasPrefix(Split(message)[i], prefix)

\* C21: each optional header line is emitted exactly when its field is
\* present in the event, whatever value the field holds: an id line iff the
\* event has an id, an event line iff it has a name, a retry line iff it
\* has a retry value.
C21_HeaderLinesIffPresent ==
    (last.op = "formatSSEMessage" /\ ~last.threw) =>
        /\ HasLine(last.message, IdPrefix) <=> last.event.id.defined
        /\ HasLine(last.message, EventPrefix) <=> last.event.event.defined
        /\ HasLine(last.message, RetryPrefix) <=> last.event.retry.defined

\* The dispatchers of the facade that are not destroyed: the timer runs or
\* connections are registered.
LiveManagers ==
    { i \in 1..Len(facade.managers) :
          \/ facade.managers[i].pingInterval.active
          \/ DOMAIN facade.managers[i].m.clients # {} }

\* C22: the facade holds one dispatcher: getSSEManager constructs it on
\* first use and returns the same instance until it is replaced, and at
\* any time the only dispatcher that is not destroyed is the current one.
C22_OneLiveDispatcher ==
    /\ [](LiveManagers \subseteq {facade.sseManager})
    /\ [][GetSSEManager =>
             /\ facade'.sseManager # 0
             /\ last'.instance = facade'.sseManager
             /\ facade.sseManager # 0 => facade' = facade]_vars

\* A dispatcher that had a connection has been destroyed and replaced, and
\* the replacement has a connection registered.
C22_Witness ==
    /\ facade.sseManager = 2
    /\ Len(facade.managers[1].m.streams) = 1
    /\ DOMAIN facade.managers[2].m.clients # {}

\* The current dispatcher of the facade.
Current == facade.managers[facade.sseManager].m
\* Its registered connections (by stream) whose userId is in the list.
StreamsOfUsers(userIds) ==
    { Current.clients[k].controller :
        k \in { x \in DOMAIN Current.clients :
                  \E n \in 1..Len(userIds) :
                      Current.clients[x].userId = userIds[n] } }

\* C23: for every integer p, the progress value progressUpdate places in
\* the published event is min(100, max(0, p)): never below 0, never above
\* 100.
C23_ProgressClamped ==
    last.op = "progressUpdate" =>
        /\ last.event.progress =
               (IF last.progress < 0 THEN 0
                ELSE IF last.progress > 100 THEN 100 ELSE last.progress)
        /\ last.event.progress \in 0..100

\* A negative progress was published to a registered connection as 0.
C23_Witness ==
    /\ last.op = "progressUpdate"
    /\ last.progress = -1
    /\ last.event.progress = 0
    /\ last.delivered # {}

\* C24: when realtimeUpdate is given a targetUsers list, the update is
\* written only to connections whose userId is in that list; it is written
\* to every registered connection when the list is omitted.
C24_RealtimeUpdateTargets ==
    [][\A data \in {"object"}, targetUsers \in TargetUsers :
          (facade.sseManager # 0 /\ RealtimeUpdate(data, targetUsers)) =>
              IF targetUsers.defined
              THEN last'.delivered \subseteq StreamsOfUsers(targetUsers.value)
              ELSE last'.delivered \cup last'.failed = Registered(Current)]_vars

\* C25: a transport error schedules a reconnect exactly when autoReconnect
\* is on and reconnectAttempts is below maxReconnectAttempts, and then adds
\* one to the counter; otherwise the counter and the timer are left alone.
\* So reconnectAttempts never exceeds maxReconnectAttempts.
C25_ReconnectIffBelowMax ==
    /\ [](subscriber.mounted =>
            subscriber.reconnectAttempts <= subscriber.options.maxReconnectAttempts)
    /\ [][\A readyState \in {"connecting", "closed"} :
             OnError(readyState) =>
                 IF /\ subscriber.options.autoReconnect
                    /\ subscriber.reconnectAttempts <
                           subscriber.options.maxReconnectAttempts
                 THEN /\ last'.scheduled
                      /\ subscriber'.reconnectTimeout.pending
                      /\ subscriber'.reconnectAttempts =
                             subscriber.reconnectAttempts + 1
                 ELSE /\ ~last'.scheduled
                      /\ subscriber'.reconnectTimeout = subscriber.reconnectTimeout
                      /\ subscriber'.reconnectAttempts =
                             subscriber.reconnectAttempts]_vars

\* The counter has reached a maximum of 2 and a further error scheduled
\* nothing.
C25_Witness ==
    /\ last.op = "onerror"
    /\ ~last.scheduled
    /\ subscriber.options.autoReconnect
    /\ last.attempts = 2
    /\ subscriber.reconnectAttempts = 2
    /\ subscriber.options.maxReconnectAttempts = 2

\* C26: the delay scheduled after an error is
\* min(reconnectInterval * 2^attempts, 30000) for the counter value before
\* the increment; it is at most 30000 and, on a failure that follows
\* another, not below the delay scheduled before.
C26_BackoffDelay ==
    [][\A readyState \in {"connecting", "closed"} :
          (OnError(readyState) /\ last'.scheduled) =>
              LET raw == subscriber.options.reconnectInterval *
                             MathPow2(subscriber.reconnectAttempts)
              IN  /\ last'.delay = (IF raw < 30000 THEN raw ELSE 30000)
                  /\ subscriber'.reconnectTimeout.delay = last'.delay
                  /\ last'.delay <= 30000
                  /\ subscriber.reconnectAttempts > 0 =>
                         last'.delay >= subscriber.reconnectTimeout.delay]_vars

\* The second failure in a row with a base interval of 20000: the doubled
\* delay is capped at 30000.
C26_Witness ==
    /\ last.op = "onerror"
    /\ last.scheduled
    /\ subscriber.options.reconnectInterval = 20000
    /\ last.attempts = 1
    /\ last.delay = 30000

\* C27: a successful open resets reconnectAttempts to 0, so an error on an
\* open connection is retried (when retries are enabled at all) after the
\* base delay.
C27_OpenResetsAttempts ==
    /\ [][OnOpen => subscriber'.reconnectAttempts = 0]_vars
    /\ [][\A readyState \in {"connecting", "closed"} :
             (/\ OnError(readyState)
              /\ subscriber.eventSource = "open"
              /\ subscriber.options.autoReconnect
              /\ subscriber.options.maxReconnectAttempts > 0) =>
                 /\ last'.scheduled
                 /\ last'.delay = subscriber.options.reconnectInterval]_vars

\* A connection opened after the maximum of 2 failed attempts and the
\* counter is 0 again.
C27_Witness ==
    /\ last.op = "onopen"
    /\ last.attempts = 2
    /\ subscriber.options.maxReconnectAttempts = 2
    /\ subscriber.reconnectAttempts = 0

\* The handlers the last delivery invoked.
Invoked == { last.invoked[i] : i \in 1..Len(last.invoked) }
\* The registrations (by cleanup index) of an event type that are still in
\* force: the cleanup function of the registration has not been called, and
\* neither has that of another registration of the same handler for the
\* same type.
InForce(eventType) ==
    { k \in 1..Len(subscriber.cleanups) :
        /\ subscriber.cleanups[k].eventType = eventType
        /\ \A j \in 1..Len(subscriber.cleanups) :
              (/\ subscriber.cleanups[j].eventType = eventType
               /\ subscriber.cleanups[j].handler = subscriber.cleanups[k].handler)
                  => ~subscriber.cleanups[j].called }

\* C28: after any sequence of addEventListener and cleanup calls, a
\* dispatch for an event type invokes every handler registered for it whose
\* own cleanup function has not been called.
C28_UnsubscribeIsIndependent ==
    (last.op = "deliver" /\ last.dispatched) =>
        \A k \in InForce(EventType(last.event)) :
            subscriber.cleanups[k].handler \in Invoked

\* C29: when an event is dispatched and a handler throws, every handler in
\* the Set of that event type is still invoked exactly once and no
\* exception leaves the dispatch.
C29_ThrowingListenerIsContained ==
    (last.op = "deliver" /\ last.dispatched) =>
        /\ ~last.threw
        /\ EventType(last.event) \in DOMAIN subscriber.eventListeners =>
               \A h \in Handlers :
                   (\E i \in 1..Len(subscriber.sets[subscriber.eventListeners[EventType(last.event)]]) :
                        subscriber.sets[subscriber.eventListeners[EventType(last.event)]][i] = h)
                   => Cardinality({ i \in 1..Len(last.invoked) : last.invoked[i] = h }) = 1

\* A dispatch in which a handler threw and a handler registered after it
\* was invoked all the same.
C29_Witness ==
    /\ last.op = "deliver"
    /\ last.dispatched
    /\ \E i, j \in 1..Len(last.invoked) :
           i < j /\ last.invoked[i].throws /\ ~last.invoked[j].throws

\* C30: whenever the server delivers an event with a name (and a JSON
\* payload) to the open connection, every handler registered in the hook
\* for that name is invoked.
C30_NamedEventsReachHandlers ==
    (last.op = "deliver" /\ last.event.event.defined
        /\ last.event.data = "json"
        /\ EventType(last.event) \in DOMAIN subscriber.eventListeners) =>
        \A i \in 1..Len(subscriber.sets[subscriber.eventListeners[EventType(last.event)]]) :
            subscriber.sets[subscriber.eventListeners[EventType(last.event)]][i] \in Invoked

\* C31: in every reachable state of the hook isConnected and isConnecting
\* are not both true, so the hook is in exactly one of disconnected,
\* connecting and connected; it shows connected only while the EventSource
\* is open.
C31_OneConnectionState ==
    /\ ~(subscriber.isConnected /\ subscriber.isConnecting)
    /\ subscriber.isConnected => subscriber.eventSource = "open"

\* A connection was open, failed, and the reconnect timer has started a new
\* attempt: the hook is connecting and not connected.
C31_Witness ==
    /\ last.op = "reconnectTimeout"
    /\ subscriber.reconnectAttempts = 1
    /\ subscriber.isConnecting
    /\ ~subscriber.isConnected
    /\ subscriber.eventSource = "connecting"

\* C32: within one timer tick every connection registered at its start gets
\* exactly one ping write attempt; a connection whose ping fails is torn
\* down once, by the failed-send path; lastPing becomes the tick's time for
\* exactly the connections whose ping succeeded, and every connection
\* registered when the tick ends has that lastPing.
C32_HeartbeatBeforeSweep ==
    [][Tick =>
          /\ last'.delivered \cup last'.failed = RegisteredNow
          /\ last'.delivered \cap last'.failed = {}
          /\ totalEventsSent' = totalEventsSent + Cardinality(last'.delivered)
          /\ \A c \in last'.failed :
                /\ streams'[c].sendFailed
                /\ streams'[c].teardowns = streams[c].teardowns + 1
                /\ c \notin RegisteredNow'
          /\ \A k \in DOMAIN clients :
                IF clients[k].controller \in last'.delivered
                THEN k \in DOMAIN clients' /\ clients'[k].lastPing = now
                ELSE k \notin DOMAIN clients'
          /\ \A k \in DOMAIN clients' : clients'[k].lastPing = now]_vars

\* The tick at time 2 pinged two registered connections: the write to one
\* failed and it is gone, the other has lastPing 2.
C32_Witness ==
    /\ last.op = "tick"
    /\ now = 2
    /\ Cardinality(last.delivered) = 1
    /\ Cardinality(last.failed) = 1
    /\ last.delivered = RegisteredNow
    /\ \A k \in DOMAIN clients : clients[k].lastPing = 2 /\ clients[k].connectedAt < 2

\* The client record of a registered connection, by its stream.
ClientOf(c) == clients[CHOOSE k \in DOMAIN clients : clients[k].controller = c]

\* C33: lastPing of a connection changes only in a timer tick whose ping
\* write to that connection succeeded; the send operations and the read
\* operations leave every lastPing as it was, and id, userId, sessionId,
\* metadata and connectedAt of a connection never change.
C33_LastPingOnlyByHeartbeat ==
    [][\A c \in RegisteredNow \cap RegisteredNow' :
          /\ ClientOf(c)'.lastPing # ClientOf(c).lastPing =>
                 Tick /\ c \in last'.delivered
          /\ ClientOf(c)'.id = ClientOf(c).id
          /\ ClientOf(c)'.userId = ClientOf(c).userId
          /\ ClientOf(c)'.sessionId = ClientOf(c).sessionId
          /\ ClientOf(c)'.metadata = ClientOf(c).metadata
          /\ ClientOf(c)'.connectedAt = ClientOf(c).connectedAt]_vars

\* A connection created at time 0 and pinged at time 1 received a broadcast
\* at time 2: its lastPing is still 1.
C33_Witness ==
    /\ last.op = "broadcast"
    /\ now = 2
    /\ \E k \in DOMAIN clients :
          /\ clients[k].controller \in last.delivered
          /\ clients[k].connectedAt = 0
          /\ clients[k].lastPing = 1
          /\ lastEventTime = 2

\* C34: a connection that has left the registry is never registered again,
\* and no later send or heartbeat writes to its sink, attempts to, or counts
\* it as delivered.
C34_ClosedIsTerminal ==
    [][\A c \in 1..Len(streams) :
          c \notin RegisteredNow =>
              /\ c \notin RegisteredNow'
              /\ c \notin last'.delivered
              /\ c \notin last'.failed]_vars

\* A connection was disconnected, a second one is registered, and a
\* broadcast has been written to the second one only.
C34_Witness ==
    /\ last.op = "broadcast"
    /\ Len(streams) = 2
    /\ streams[1].teardowns = 1
    /\ RegisteredNow = {2}
    /\ last.delivered = {2}
    /\ last.count = 1

\* C35: the first event written to a connection's sink is the "connected"
\* event carrying the connection's own id and connectedAt; it is written
\* within createConnection, and no connection is ever in the registry
\* without it.
C35_ConnectedEventFirst ==
    /\ \A c \in RegisteredNow :
          /\ streams[c].first # <<>>
          /\ streams[c].first[1].event = "connected"
          /\ streams[c].first[1].clientId = ClientOf(c).id
          /\ streams[c].first[1].connectedAt = ClientOf(c).connectedAt
    /\ \A c \in 1..Len(streams) :
          streams[c].first # <<>> =>
              /\ streams[c].first[1].event = "connected"
              /\ streams[c].first[1].clientId = streams[c].clientId
    /\ (last.op = "createConnection" /\ ~last.threw) =>
          /\ last.delivered = {Len(streams)}
          /\ Len(streams) \in RegisteredNow

\* A connection created at time 1 has since been pinged and broadcast to;
\* the head of its sink is its connected event.
C35_Witness ==
    /\ last.op = "broadcast"
    /\ now = 2
    /\ \E c \in last.delivered :
          /\ ClientOf(c).connectedAt = 1
          /\ ClientOf(c).lastPing = 2
          /\ streams[c].first[1].event = "connected"
          /\ streams[c].first[1].connectedAt = 1

\* The facade calls that take the user a notification is addressed to.
AddressedOps ==
    {"notifyUser", "progressUpdate", "successNotification", "errorNotification"}

\* C36: a facade notification addressed to user u (any string, the empty
\* string included) is written to no connection whose userId is not u.
C36_AddressedOnlyToUser ==
    [][(/\ facade.sseManager # 0
        /\ last'.op \in AddressedOps
        /\ last'.userId # Undefined) =>
           last'.delivered \subseteq StreamsOfUsers(<<last'.userId>>)]_vars

\* C37: a notification sent with sendNotificationToUser(u, message) is
\* written to the streaming connections opened through GET /api/sse with
\* userId u.
C37_ProducersShareRegistry ==
    (last.op = "sendNotificationToUser" /\ facade.sseManager # 0) =>
        StreamsOfUsers(<<last.userId>>) \subseteq last.delivered

\* C38: on a destroyed dispatcher createConnection below capacity still
\* succeeds and registers the connection, the timer is never restarted (no
\* heartbeat, no sweep), and a connection leaves the registry only through
\* a disconnect call, a transport abort, a failed send or destroy().
C38_DestroyDoesNotRetire ==
    [][~pingInterval.active =>
          /\ \A options \in ConnectOptions, suffix \in Suffixes(AllocatedIds, now) :
                (CreateConnection(options, suffix)
                    /\ RegistrySize < config.maxClients) =>
                   /\ ~last'.threw
                   /\ Len(streams') \in RegisteredNow'
          /\ ~pingInterval'.active
          /\ last'.op # "tick"
          /\ \A c \in RegisteredNow \ RegisteredNow' :
                \/ last'.op \in {"disconnectClient", "cancel", "destroy"}
                \/ c \in last'.failed]_vars

\* The hook as disconnect() leaves it: no EventSource, no pending timer,
\* not connected, not connecting, attempt counter 0.
Disconnected ==
    /\ subscriber.eventSource = "none"
    /\ subscriber.timers = 0
    /\ ~subscriber.reconnectTimeout.pending
    /\ ~subscriber.isConnected
    /\ ~subscriber.isConnecting
    /\ subscriber.reconnectAttempts = 0

LimitExceeded(req) ==
    /\ req.getRedis = "ok"
    /\ req.getRateLimiter = "ok"
    /\ req.limit = "exceeded"

\* C40: the middleware invokes next zero times, answering 429, when the
\* limiter reports the limit exceeded, and exactly once in every other case:
\* Redis or the limiter unavailable, the downstream handler failing.
C40_NextAtMostOnce ==
    last.op = "rateLimitMiddleware" =>
        IF LimitExceeded(last.req)
        THEN last.result.nextCalls = 0 /\ last.result.status = 429
        ELSE last.result.nextCalls = 1

====
